---- MODULE Spec2Model ----
(***************************************************************************)
(* Theme Factory build server.                                             *)
(*                                                                         *)
(* Spec       : the asynchronous job server, v2.9.0 (src/server.js lines   *)
(*              1920-2685): admission handler, processBuild, Job Store,    *)
(*              signed download token, download handler.                   *)
(* SpecOversize : the same server fed only ZIPs over a ceiling of the      *)
(*              Archive Guard (Spec is fed the other uploads).             *)
(* SpecStream : the streaming build handler with its Archive Guard         *)
(*              (scanZip / extractZip), in its two variants                *)
(*              src/server.js lines 33-189 and src/unnamed/part_001.       *)
(* SpecRun    : one run of the Process Supervisor (runCommand / runCmd).   *)
(* SpecFarm   : one run of the Render Farm (prerenderDistToFiles).          *)
(* SpecToken  : signDownloadToken and verifyDownloadToken on their own.    *)
(* SpecDownload : the download endpoint after two builds have completed.   *)
(* SpecRoot   : findProjectRoot and the project root of processBuild on    *)
(*              one extracted tree.                                        *)
(* SpecUpload : the upload storage and the first steps of the streaming   *)
(*              handler for requests that arrive close together.           *)
(* SpecBoundary : the job server from the credential check of POST /build  *)
(*              to the end of the pipeline.                                *)
(* SpecLive   : SpecBoundary where every continuation that is due runs.    *)
(* SpecSeq    : one run of a renderer that takes the routes in sequence    *)
(*              (prerenderRoutes, and prerenderDistToFiles of              *)
(*              src/unnamed/part_000).                                     *)
(* SpecPort   : static servers of renders that run at the same time and    *)
(*              the ports they listen on.                                  *)
(* SpecRoutes : parseRoutesFromRequest on one request body, and the route  *)
(*              list the job server hands to its renderer.                 *)
(* SpecGuard  : the route guard generated by generateRouteGuardCode on one *)
(*              pathname and one list of selected routes.                  *)
(* SpecStrip  : the line-by-line pass of stripUnusedRoutes on one source   *)
(*              file.                                                      *)
(*                                                                         *)
(* One action is one continuation of the event loop: the code that runs    *)
(* between two awaits (or one event callback).                             *)
(***************************************************************************)
EXTENDS Integers, Sequences, FiniteSets, TLC

\* ---------------------------------------------------------------- bounds
MaxJobs == 1
MaxTicks == 1
MaxDownloads == 1
MaxEntries == 3
MaxChunks == 1
MaxRoutes == 3
MaxClock == 3
MaxTtl == 2
MaxTreeDepth == 5
MaxUploads == 2
MaxMs == 2
MaxSeqRoutes == 3
MaxRenders == 2
MaxPorts == 3
MaxListLen == 3
MaxPieces == 3

\* ------------------------------------------------------------- constants
\* signDownloadToken(jobId, ttlSeconds = 30 * 60)
DefaultTtlSeconds == 1800

API_KEY == "dev-key"

\* getBaseUrl(req)
BaseUrl == "https://builder"

\* MAX_FILES and MAX_UNZIPPED_MB are read from the environment; the model runs
\* the configuration MAX_FILES=2, MAX_UNZIPPED_MB=1.
MAX_FILES == 2
MAX_UNZIPPED_MB == 1

\* PRERENDER_CONCURRENCY is read from the environment; the model runs
\* PRERENDER_CONCURRENCY=2.
PRERENDER_CONCURRENCY == 2
PRERENDER_MAX_ROUTES == 2

JobIds == 1..MaxJobs
DlReqs == 1..MaxDownloads

VARIABLES
  jobs,        \* the Job Store: a Map jobId -> record (domain = present ids)
  nextId,      \* the next fresh uuid
  pc,          \* per job: where its admission handler / processBuild stands
  workDir,     \* per job: does /tmp/builds/<jobId> exist
  artifact,    \* per job: does /tmp/outputs/<jobId>.zip exist
  running,     \* per job: stage work still alive (child processes, browser)
  started,     \* per job: stage work ever started (history)
  stageLog,    \* per job: status and progress after each write to its record (history)
  thrown,      \* per job: message of the error the catch block received (history)
  removeCalls, \* per job: number of fs.remove(workDir) calls made (history)
  now,         \* Math.floor(Date.now() / 1000)
  ticks,       \* number of clock steps taken
  oversize,    \* per job: did its archive exceed a configured ceiling (history)
  dl           \* download requests in flight

jobVars == <<jobs, nextId, pc, workDir, artifact, running, started, stageLog,
             thrown, removeCalls, oversize, now, ticks, dl>>

\* the streaming build handler (one request)
VARIABLES
  variant,          \* "v1": src/server.js 33-189; "v2": src/unnamed/part_001
  archive,          \* the entries of the uploaded ZIP, in central-directory order
  spc,              \* where the handler stands
  extractIdx,       \* extractZip: index of the next entry event
  jobDir,           \* does the mkdtemp directory exist
  cleanupScheduled, \* the flag of the cleanup closure
  rmCalls,          \* number of fsp.rm(jobDir) calls made (history)
  rmPending,        \* an fsp.rm(jobDir) has been called and has not acted yet
  closed,           \* the response's 'close' event has fired
  written,          \* locations created by extractZip, relative to destDir (history)
  spawned,          \* external commands spawned (history)
  reply             \* what the client got: the error message of a 400, or "zip"

streamVars == <<variant, archive, spc, extractIdx, jobDir, cleanupScheduled,
                rmCalls, rmPending, closed, written, spawned, reply>>

\* one run of the Process Supervisor (runCommand / runCmd)
VARIABLES
  runVariant,  \* "runCommand": src/server.js 2020-2063; "runCmd": src/unnamed/part_001 224-249
  runPc,       \* "off", "running" (spawn was called), "crashed" (uncaught exception)
  procs,       \* processes of the run that are alive: "child", "descendant"
  forked,      \* the child has started a descendant (history)
  timer,       \* the setTimeout of the run: "off", "armed", "fired", "cleared"
  signal,      \* the signal proc.kill sent and whether it is still to be delivered
  stdoutBuf,   \* chunks of the child's stdout accumulated by the 'data' listener
  stderrBuf,   \* chunks of the child's stderr accumulated by the 'data' listener
  queued,      \* events of the child not yet handled: "error", "close0", "closeN", ...
  promise,     \* the promise of the run: Pending, or what it settled with
  settleCalls, \* number of resolve / reject calls made (history)
  firstEvent   \* the event whose handler ran first (history)

runVars == <<runVariant, runPc, procs, forked, timer, signal, stdoutBuf, stderrBuf,
             queued, promise,
             settleCalls, firstEvent>>

\* one run of the Render Farm (prerenderDistToFiles)
VARIABLES
  farmRoutes,  \* the routes argument
  farmPc,      \* where prerenderDistToFiles stands
  batchAt,     \* the loop variable i
  rstate,      \* per route index: where its task of the batch stands
  docs,        \* the index.html files under distDir: location and kind (a
               \* fallback also: the kind of document it is a copy of)
  farmResult,  \* result: { success, failed }
  batchLog     \* the batches started so far (history)

farmVars == <<farmRoutes, farmPc, batchAt, rstate, docs, farmResult, batchLog>>

\* one download token, signed and verified (signDownloadToken,
\* verifyDownloadToken)
VARIABLES
  tkNow,      \* Math.floor(Date.now() / 1000)
  tkIssued,   \* the calls of signDownloadToken: arguments, time and token
  tkChecked   \* the call of verifyDownloadToken observed: token, time, result

tokenVars == <<tkNow, tkIssued, tkChecked>>

\* the download requests observed at authenticateDownload
VARIABLES
  gate         \* the last request: job, bearer, token, time, next() or 403

gateVars == <<gate>>

\* one extracted tree and the project root located in it
VARIABLES
  rootTree,     \* the extracted tree: directories, manifests, other files
  rootFound,    \* what findProjectRoot(rootDir) returned
  rootLocated   \* the projectRoot of processBuild, or its 'No package.json found'

rootVars == <<rootTree, rootFound, rootLocated>>

\* the uploads of the streaming server and their staging (multer, app.post)
VARIABLES
  msNow,     \* Date.now()
  reqs,      \* per request: where it stands, its upload file, jobId, jobDir
  tmpFiles   \* the upload files present in os.tmpdir()

uploadVars == <<msNow, reqs, tmpFiles>>

\* one run of a renderer that takes the routes one after the other:
\* prerenderRoutes of the job server, prerenderDistToFiles of the first
\* streaming server
VARIABLES
  seqVariant,  \* "prerenderRoutes" or "prerenderDistToFiles"
  seqPc,       \* where the function stands
  seqAt,       \* the route of the loop
  seqBrowser,  \* the browser: "none", "open", "closed"
  seqServer,   \* the static server: "none", "up", "closed"
  seqOut,      \* per route: what was written at its output location
  seqResult,   \* the routes recorded as rendered and as failed
  seqPages,    \* the routes whose page is open (0: the page shared by all)
  seqLate      \* the routes whose wait for the root element ran out (history)

seqVars == <<seqVariant, seqPc, seqAt, seqBrowser, seqServer, seqOut, seqResult,
            seqPages, seqLate>>

\* the static servers of renders that run at the same time
VARIABLES
  portPolicy,  \* how a render gets its port: "random", "fixed", "ephemeral"
  srv          \* per render: state of its static server and the port it asked for or got

portVars == <<portPolicy, srv>>

\* one call of a function of the route handling, observed on its own
VARIABLES
  fnName,      \* the function called ("" before the call)
  fnArg,       \* its argument
  fnRes        \* what it returned

fnVars == <<fnName, fnArg, fnRes>>

\* what the actions of each part leave alone
offDownload == <<streamVars, runVars, farmVars, tokenVars, rootVars, uploadVars, seqVars, portVars, fnVars>>
offJob == <<offDownload, gateVars>>
offStream == <<jobVars, runVars, farmVars, tokenVars, gateVars, rootVars, uploadVars, seqVars, portVars, fnVars>>
offRun == <<jobVars, streamVars, farmVars, tokenVars, gateVars, rootVars, uploadVars, seqVars, portVars, fnVars>>
offFarm == <<jobVars, streamVars, runVars, tokenVars, gateVars, rootVars, uploadVars, seqVars, portVars, fnVars>>
offToken == <<jobVars, streamVars, runVars, farmVars, gateVars, rootVars, uploadVars, seqVars, portVars, fnVars>>
offRoot == <<jobVars, streamVars, runVars, farmVars, tokenVars, gateVars, uploadVars, seqVars, portVars, fnVars>>
offUpload == <<jobVars, streamVars, runVars, farmVars, tokenVars, gateVars, rootVars, seqVars, portVars, fnVars>>
offSeq == <<jobVars, streamVars, runVars, farmVars, tokenVars, gateVars, rootVars, uploadVars, portVars, fnVars>>
offPort == <<jobVars, streamVars, runVars, farmVars, tokenVars, gateVars, rootVars, uploadVars, seqVars, fnVars>>
offFn == <<jobVars, streamVars, runVars, farmVars, tokenVars, gateVars, rootVars, uploadVars, seqVars, portVars>>

vars == <<jobVars, streamVars, runVars, farmVars, tokenVars, gateVars, rootVars, uploadVars, seqVars, portVars, fnVars>>

\* ------------------------------------------------------------- Job Store
NoError == ""

\* a field of a job record is set when the record has it
IsSet(job, field) == field \in DOMAIN job

\* (a set that stores nothing)
MapSet_Forget(m, k, v) == m

\* jobs.set(jobId, record)
MapSet(m, k, v) == [x \in (DOMAIN m) \cup {k} |-> IF x = k THEN v ELSE m[x]]

\* jobs.delete(jobId)
MapDelete(m, k) == [x \in (DOMAIN m) \ {k} |-> m[x]]

\* { ...job, ...updates }
Spread(job, updates) ==
  [f \in (DOMAIN job) \cup (DOMAIN updates) |->
     IF f \in DOMAIN updates THEN updates[f] ELSE job[f]]

\* (an update that makes the record when there is none)
updateJob_Upsert(store, jobId, updates) ==
  MapSet(store, jobId,
         Spread(IF jobId \in DOMAIN store THEN store[jobId] ELSE <<>>, updates))

\* const job = jobs.get(jobId); if (job) jobs.set(jobId, { ...job, ...updates })
updateJob(store, jobId, updates) ==
  IF jobId \in DOMAIN store
    THEN MapSet(store, jobId, Spread(store[jobId], updates))
    ELSE store

\* ------------------------------------------------------ Download Authorizer
\* A token is the sequence of the parts token.split('.') yields. A jobId is a
\* uuid (no dot in it), written as a number; 0 is the empty string.
\*
\* The text of an expiry part: the decimal digits of n ("dec"), another
\* numeral of n such as "007" or " 7" ("padded"), no characters ("empty"), or
\* characters that are no numeral ("word").
Str(n) == [text |-> "dec", n |-> n]

IsNaN(expStr) == expStr.text = "word"

\* Number(expStr) where it is a number: Number("") is 0
Number(expStr) == IF expStr.text = "empty" THEN 0 ELSE expStr.n

\* crypto.createHmac('sha256', key).update(data).digest('hex'): an ideal keyed
\* hash, equal exactly when key and data are equal; 64 characters, 64 bytes.
Hmac(key, data) == [hex |-> <<key, data>>, len |-> 64, bytes |-> 64]

\* a signature part that is no digest: id tells such texts apart, len is its
\* length in characters and bytes its length as a Buffer
SigText(id, len, bytes) == [hex |-> <<"", <<0, id>>>>, len |-> len, bytes |-> bytes]

\* (a signature computed over the jobId alone)
signDownloadToken_SigOverJobId(jobId, ttlSeconds, t) ==
  LET exp == t + ttlSeconds
  IN <<jobId, Str(exp), Hmac(API_KEY, <<jobId, 0>>)>>

signDownloadToken(jobId, ttlSeconds, t) ==
  LET exp == t + ttlSeconds
  IN <<jobId, Str(exp), Hmac(API_KEY, <<jobId, exp>>)>>

\* what the try block of verifyDownloadToken evaluates to
Thrown == -1

\* (a verification that compares lengths only)
VerifyBody_LengthOnly(token, t) ==
  IF Len(token) # 3 THEN 0
  ELSE IF token[1] = 0 \/ IsNaN(token[2]) \/ Number(token[2]) = 0 \/ token[3].len = 0 THEN 0
  ELSE IF t > Number(token[2]) THEN 0
  ELSE IF token[3].len # 64 THEN 0
  ELSE token[1]

\* the try block: the jobId, 0 for null, or Thrown. timingSafeEqual throws
\* when its two buffers differ in byte length.
VerifyBody(token, t) ==
  IF Len(token) # 3 THEN 0
  ELSE LET jobId == token[1]
           expStr == token[2]
           sig == token[3]
       IN IF jobId = 0 \/ IsNaN(expStr) \/ Number(expStr) = 0 \/ sig.len = 0 THEN 0
          ELSE IF t > Number(expStr) THEN 0
          ELSE LET expected == Hmac(API_KEY, <<jobId, Number(expStr)>>)
               IN IF expected.len # sig.len THEN 0
                  ELSE IF sig.bytes # expected.bytes THEN Thrown
                  ELSE IF sig = expected THEN jobId
                  ELSE 0

\* returns the jobId, or 0 for null; catch { return null }
verifyDownloadToken(token, t) ==
  IF VerifyBody(token, t) = Thrown THEN 0 ELSE VerifyBody(token, t)

\* ------------------------------------------------------------ processBuild
Stages == <<"extracting", "stripping-unused-routes", "injecting-route-guard",
            "installing-dependencies", "building", "prerendering", "packaging",
            "completed">>

Terminal == {"completed", "failed"}

Upd(status, progress) == [status |-> status, progress |-> progress]

\* the updateJob calls of processBuild's try block, in source order
ExtractingUpdate == Upd("extracting", 5)
StrippingUpdate == Upd("stripping-unused-routes", 8)
InjectingUpdate == Upd("injecting-route-guard", 10)
InstallingUpdate == Upd("installing-dependencies", 15)
BuildingUpdate_Low == Upd("building", 4)
BuildingUpdate == Upd("building", 40)
PrerenderingUpdate == Upd("prerendering", 60)
PackagingUpdate == Upd("packaging", 85)

\* several updateJob calls in a row
RECURSIVE UpdateAll(_, _, _)
UpdateAll(store, jobId, ups) ==
  IF ups = <<>> THEN store
  ELSE UpdateAll(updateJob(store, jobId, Head(ups)), jobId, Tail(ups))

\* what a poller would read after each of these calls (nothing is written to
\* a record that is not in the store)
RECURSIVE Written(_, _, _)
Written(store, jobId, ups) ==
  IF ups = <<>> \/ jobId \notin DOMAIN store THEN <<>>
  ELSE LET s1 == updateJob(store, jobId, Head(ups))
       IN <<[status |-> s1[jobId].status, progress |-> s1[jobId].progress]>>
          \o Written(s1, jobId, Tail(ups))

\* the catch blocks: updateJob(jobId, { status: 'failed', error: error.message })
CatchUpdates_NoMessage(msg) == [status |-> "failed", error |-> "Build failed"]
CatchUpdates(msg) == [status |-> "failed", error |-> msg]

\* a catch block that removes workDir and records nothing
PbCatch_Unrecorded(j, before, msg) ==
  /\ jobs' = UpdateAll(jobs, j, before)
  /\ stageLog' = [stageLog EXCEPT ![j] = @ \o Written(jobs, j, before)]
  /\ thrown' = [thrown EXCEPT ![j] = msg]
  /\ removeCalls' = [removeCalls EXCEPT ![j] = @ + 1]
  /\ pc' = [pc EXCEPT ![j] = "catchRemove"]

\* the catch block of processBuild: record the failure, then remove workDir
PbCatch(j, before, msg) ==
  /\ jobs' = UpdateAll(jobs, j, Append(before, CatchUpdates(msg)))
  /\ stageLog' = [stageLog EXCEPT ![j] = @ \o Written(jobs, j, Append(before, CatchUpdates(msg)))]
  /\ thrown' = [thrown EXCEPT ![j] = msg]
  /\ removeCalls' = [removeCalls EXCEPT ![j] = @ + 1]
  /\ pc' = [pc EXCEPT ![j] = "catchRemove"]

\* the try block goes on: the given updates are written, nothing is thrown
PbGoOn(j, ups, next) ==
  /\ jobs' = UpdateAll(jobs, j, ups)
  /\ stageLog' = [stageLog EXCEPT ![j] = @ \o Written(jobs, j, ups)]
  /\ pc' = [pc EXCEPT ![j] = next]
  /\ UNCHANGED <<thrown, removeCalls>>

\* ---------------------------------------------------------------- Init
\* no streaming request
StreamIdle ==
  /\ variant = "v1"
  /\ archive = <<>>
  /\ spc = "off"
  /\ extractIdx = 0
  /\ jobDir = FALSE
  /\ cleanupScheduled = FALSE
  /\ rmCalls = 0
  /\ rmPending = FALSE
  /\ closed = FALSE
  /\ written = {}
  /\ spawned = {}
  /\ reply = ""

JobInit ==
  /\ jobs = <<>>
  /\ nextId = 1
  /\ pc = [j \in JobIds |-> "idle"]
  /\ workDir = [j \in JobIds |-> FALSE]
  /\ artifact = [j \in JobIds |-> FALSE]
  /\ running = [j \in JobIds |-> {}]
  /\ started = [j \in JobIds |-> {}]
  /\ stageLog = [j \in JobIds |-> <<>>]
  /\ thrown = [j \in JobIds |-> NoError]
  /\ removeCalls = [j \in JobIds |-> 0]
  /\ now = 0
  /\ ticks = 0
  /\ dl = [r \in DlReqs |-> [pc |-> "idle", job |-> 0]]
  /\ oversize = [j \in JobIds |-> FALSE]

\* no Process Supervisor run under observation
RunIdle ==
  /\ runVariant = "runCommand"
  /\ runPc = "off"
  /\ procs = {}
  /\ forked = FALSE
  /\ timer = "off"
  /\ signal = [name |-> "none", pending |-> FALSE]
  /\ stdoutBuf = 0
  /\ stderrBuf = 0
  /\ queued = {}
  /\ promise = [kind |-> "Pending"]
  /\ settleCalls = 0
  /\ firstEvent = "none"

\* dist/index.html, the output of the build
BuiltIndex == [loc |-> <<"index.html">>, kind |-> "built"]

\* no Render Farm run under observation
FarmIdle ==
  /\ farmRoutes = <<>>
  /\ farmPc = "off"
  /\ batchAt = 0
  /\ rstate = <<>>
  /\ docs = {BuiltIndex}
  /\ farmResult = [success |-> 0, failed |-> <<>>]
  /\ batchLog = <<>>

\* no token signed or verified
TokenInit ==
  /\ tkNow = 0
  /\ tkIssued = {}
  /\ tkChecked = [called |-> FALSE, token |-> <<>>, at |-> 0, result |-> 0]

\* no download request observed
GateInit ==
  gate = [seen |-> FALSE, job |-> 0, bearer |-> "", t |-> <<>>, at |-> 0,
          passed |-> FALSE]

\* the outcome of a search for the project root that has not run
NotRun == [kind |-> "pending", dir |-> <<>>]

\* no tree under observation
RootIdle ==
  /\ rootTree = [dirs |-> {}, manifests |-> {}, extra |-> FALSE]
  /\ rootFound = NotRun
  /\ rootLocated = NotRun

UploadReqs == 1..MaxUploads

\* no upload received
UploadIdle ==
  /\ msNow = 0
  /\ reqs = [r \in UploadReqs |-> [pc |-> "idle", file |-> 0, jobId |-> 0, jobDir |-> 0]]
  /\ tmpFiles = {}

SeqRoutes == 1..MaxSeqRoutes

\* no such run under observation
SeqIdle ==
  /\ seqVariant = "prerenderRoutes"
  /\ seqPc = "off"
  /\ seqAt = 0
  /\ seqBrowser = "none"
  /\ seqServer = "none"
  /\ seqOut = [k \in SeqRoutes |-> "none"]
  /\ seqResult = [success |-> {}, failed |-> {}]
  /\ seqPages = {}
  /\ seqLate = {}

Renders == 1..MaxRenders
Ports == 1..MaxPorts

NoServer == [state |-> "none", port |-> 0]

\* no render under observation
PortIdle ==
  /\ portPolicy = "random"
  /\ srv = [r \in Renders |-> NoServer]

\* no call under observation
FnIdle ==
  /\ fnName = ""
  /\ fnArg = <<>>
  /\ fnRes = <<>>

\* the parts that stand idle while another is observed
Idle == StreamIdle /\ RunIdle /\ FarmIdle /\ TokenInit /\ GateInit /\ RootIdle /\ UploadIdle /\ SeqIdle /\ PortIdle /\ FnIdle

Init == JobInit /\ Idle

\* An Authorization header: absent, or a scheme and what follows it
NoHeader == [scheme |-> "", token |-> ""]
Headers ==
  {NoHeader, [scheme |-> "Basic", token |-> API_KEY],
   [scheme |-> "Bearer", token |-> "wrong-key"], [scheme |-> "Bearer", token |-> API_KEY]}

\* (a check of the scheme alone)
authenticate_SchemeOnly(h) == IF h.scheme # "Bearer" THEN 401 ELSE 0

\* authenticate: 401, 403, or 0 for next()
authenticate(h) ==
  IF h = NoHeader \/ h.scheme # "Bearer" THEN 401
  ELSE IF h.token # API_KEY THEN 403
  ELSE 0

\* app.post('/build'): uuid, jobs.set, 202, then the request fields are parsed
AdmitBody(parseOk) ==
  /\ nextId <= MaxJobs
  /\ LET j == nextId
         rec == [id |-> j, status |-> "processing", progress |-> 0,
                 startTime |-> now, baseUrl |-> BaseUrl]
     IN /\ nextId' = nextId + 1
        /\ IF parseOk
             THEN /\ jobs' = MapSet(jobs, j, rec)
                  /\ stageLog' = [stageLog EXCEPT ![j] = <<Upd("processing", 0)>>]
                  /\ pc' = [pc EXCEPT ![j] = "ensureWorkDir"]
                  /\ UNCHANGED thrown
             ELSE \* JSON.parse throws: the handler's catch block
                  LET msg == "Unexpected token in JSON"
                      s0 == MapSet(jobs, j, rec)
                  IN /\ jobs' = updateJob(s0, j, CatchUpdates(msg))
                     /\ stageLog' = [stageLog EXCEPT ![j] =
                          <<Upd("processing", 0)>> \o Written(s0, j, <<CatchUpdates(msg)>>)]
                     /\ thrown' = [thrown EXCEPT ![j] = msg]
                     /\ pc' = [pc EXCEPT ![j] = "end"]
  /\ UNCHANGED <<workDir, artifact, running, started, removeCalls, oversize, now, ticks, dl>>

Admit(parseOk) ==
  /\ AdmitBody(parseOk)
  /\ UNCHANGED offJob

\* POST /build arrives with a header: authenticate answers 401 / 403 and the
\* handler never runs, or calls next() and the handler runs; the header and
\* the answer are put on record
AdmitObserved(h, parseOk) ==
  /\ gate' = [seen |-> TRUE, job |-> nextId, bearer |-> h.scheme, t |-> <<h.token>>,
              at |-> now, passed |-> (authenticate(h) = 0)]
  /\ IF authenticate(h) = 0 THEN AdmitBody(parseOk) ELSE UNCHANGED jobVars
  /\ UNCHANGED offDownload

\* The uploads a request can carry: no file field, bytes that are no ZIP,
\* or a ZIP described by its file count and its total uncompressed size.
Zip(n, mb) == [kind |-> "zip", fileCount |-> n, unzippedMB |-> mb]

Uploads == {[kind |-> "none", fileCount |-> 0, unzippedMB |-> 0],
            [kind |-> "corrupt", fileCount |-> 0, unzippedMB |-> 0],
            Zip(1, 1)}

\* ZIPs over the file-count ceiling or over the size ceiling
OversizeUploads == {Zip(MAX_FILES + 1, 1), Zip(1, MAX_UNZIPPED_MB + 1)}

\* the ceilings of the Archive Guard (fileCount > MAX_FILES, totalUnzipped >
\* MAX_UNZIPPED_MB * 1024 * 1024)
Exceeds(up) == up.kind = "zip" /\ (up.fileCount > MAX_FILES \/ up.unzippedMB > MAX_UNZIPPED_MB)

\* the admission handler after the 202: ensureDir(workDir), req.file.buffer,
\* new AdmZip, extractAllTo, then the call of processBuild up to its first await
Setup(j, up, io) ==
  /\ pc[j] = "ensureWorkDir"
  /\ oversize' = [oversize EXCEPT ![j] = Exceeds(up)]
  /\ LET msg == IF io = "mkdirError" THEN "EACCES: mkdir"
                ELSE IF up.kind = "none" THEN "Cannot read properties of undefined"
                ELSE IF up.kind = "corrupt" THEN "Invalid or unsupported zip format"
                ELSE IF io = "extractError" THEN "ENOSPC: write"
                ELSE NoError
     IN /\ workDir' = [workDir EXCEPT ![j] = (io # "mkdirError")]
        /\ IF msg = NoError
             THEN /\ pc' = [pc EXCEPT ![j] = "pbEnsureDir"]
                  /\ UNCHANGED <<jobs, stageLog, thrown>>
             ELSE \* the handler's own catch: no removal of workDir
                  /\ jobs' = updateJob(jobs, j, CatchUpdates(msg))
                  /\ stageLog' = [stageLog EXCEPT ![j] = @ \o Written(jobs, j, <<CatchUpdates(msg)>>)]
                  /\ thrown' = [thrown EXCEPT ![j] = msg]
                  /\ pc' = [pc EXCEPT ![j] = "end"]
  /\ UNCHANGED <<nextId, artifact, running, started, removeCalls, now, ticks, dl>>
  /\ UNCHANGED offJob

\* processBuild: await fs.ensureDir(workDir); updateJob(5, extracting)
PbEnsureDir(j, ok) ==
  /\ pc[j] = "pbEnsureDir"
  /\ IF ok THEN PbGoOn(j, <<ExtractingUpdate>>, "locateRoot")
           ELSE PbCatch(j, <<>>, "EACCES: mkdir")
  /\ UNCHANGED <<nextId, workDir, artifact, running, started, oversize, now, ticks, dl>>
  /\ UNCHANGED offJob

\* processBuild lines 2486-2517: readdir / stat / pathExists(package.json), then
\* without an await in between: strip, inject, and the spawn of npm install
LocateRoot(j, found, strip, inject) ==
  /\ pc[j] = "locateRoot"
  /\ IF found = "ioError" THEN
       PbCatch(j, <<>>, "ENOENT: scandir") /\ UNCHANGED <<running, started>>
     ELSE IF found = "none" THEN
       PbCatch(j, <<>>, "No package.json found") /\ UNCHANGED <<running, started>>
     ELSE IF strip = "throws" THEN
       /\ PbCatch(j, <<StrippingUpdate>>, "EISDIR: read")
       /\ UNCHANGED <<running, started>>
     ELSE IF inject = "throws" THEN
       /\ PbCatch(j, <<StrippingUpdate, InjectingUpdate>>, "EACCES: open")
       /\ UNCHANGED <<running, started>>
     ELSE
       /\ PbGoOn(j, <<StrippingUpdate, InjectingUpdate, InstallingUpdate>>, "installing")
       /\ running' = [running EXCEPT ![j] = @ \cup {"install"}]
       /\ started' = [started EXCEPT ![j] = @ \cup {"install"}]
  /\ UNCHANGED <<nextId, workDir, artifact, oversize, now, ticks, dl>>
  /\ UNCHANGED offJob

\* What the promise of runCommand does on each event of the child: 'close'
\* with code 0 resolves; 'close' with another code, the timer and 'error'
\* reject. Only 'close' means the process is gone: the timer sends SIGTERM to
\* the shell (spawn with shell: true), whose command may or may not die.
CommandMessage(event) ==
  CASE event = "exit0" -> NoError
    [] event = "exitN" -> "Command failed with code 1"
    [] event = "timeout" -> "Command timed out after 600000ms"
    [] event = "error" -> "spawn ENOENT"

\* if (code === 0) resolve(...) else reject(...); the timer and 'error' reject
Resolves_OnTimeout(event) == event \in {"exit0", "timeout"}
Resolves(event) == event = "exit0"

AliveAfter(event, survives) == event = "timeout" /\ survives

\* await runCommand('npm', ['install', ...]); updateJob(40, building); spawn build
InstallSettles(j, event, survives) ==
  /\ pc[j] = "installing"
  /\ running' = [running EXCEPT ![j] =
       IF AliveAfter(event, survives) THEN @
       ELSE IF Resolves(event) THEN (@ \ {"install"}) \cup {"build"}
       ELSE @ \ {"install"}]
  /\ IF Resolves(event)
       THEN /\ PbGoOn(j, <<BuildingUpdate>>, "building")
            /\ started' = [started EXCEPT ![j] = @ \cup {"build"}]
       ELSE /\ PbCatch(j, <<>>, CommandMessage(event))
            /\ UNCHANGED started
  /\ UNCHANGED <<nextId, workDir, artifact, oversize, now, ticks, dl>>
  /\ UNCHANGED offJob

\* await runCommand('npm', ['run', 'build']); then the search for dist begins
BuildSettles(j, event, survives) ==
  /\ pc[j] = "building"
  /\ running' = [running EXCEPT ![j] =
       IF AliveAfter(event, survives) THEN @ ELSE @ \ {"build"}]
  /\ IF Resolves(event)
       THEN PbGoOn(j, <<>>, "findDist")
       ELSE PbCatch(j, <<>>, CommandMessage(event))
  /\ UNCHANGED <<nextId, workDir, artifact, started, oversize, now, ticks, dl>>
  /\ UNCHANGED offJob

\* lines 2525-2541: pathExists over dist/build/out; updateJob(60, prerendering);
\* prerenderRoutes starts
FindDist(j, found) ==
  /\ pc[j] = "findDist"
  /\ IF found
       THEN /\ PbGoOn(j, <<PrerenderingUpdate>>, "prerendering")
            /\ running' = [running EXCEPT ![j] = @ \cup {"render"}]
            /\ started' = [started EXCEPT ![j] = @ \cup {"render"}]
       ELSE /\ PbCatch(j, <<>>, "No dist folder found")
            /\ UNCHANGED <<running, started>>
  /\ UNCHANGED <<nextId, workDir, artifact, oversize, now, ticks, dl>>
  /\ UNCHANGED offJob

\* await prerenderRoutes(...) returns (its per-route failures are in its
\* result) or throws out of its finally block (browser.close() rejecting);
\* then updateJob(85, packaging), addLocalFolder and ensureDir(outputs)
PrerenderSettles(j, outcome) ==
  /\ pc[j] = "prerendering"
  /\ IF outcome = "returns" THEN
       /\ running' = [running EXCEPT ![j] = @ \ {"render"}]
       /\ PbGoOn(j, <<PackagingUpdate>>, "packaging")
       /\ started' = [started EXCEPT ![j] = @ \cup {"package"}]
     ELSE IF outcome = "closeThrows" THEN
       /\ PbCatch(j, <<>>, "browser.close: Target closed")
       /\ UNCHANGED <<running, started>>
     ELSE \* addLocalFolder throws
       /\ running' = [running EXCEPT ![j] = @ \ {"render"}]
       /\ PbCatch(j, <<PackagingUpdate>>, "ENOENT: addLocalFolder")
       /\ started' = [started EXCEPT ![j] = @ \cup {"package"}]
  /\ UNCHANGED <<nextId, workDir, artifact, oversize, now, ticks, dl>>
  /\ UNCHANGED offJob

\* the updates of the completed job (lines 2557-2563)
\* downloadUrl = `${baseUrl}/download/${jobId}?t=${dlToken}`
CompletedUpdates(j, t) ==
  [status |-> "completed", progress |-> 100,
   downloadUrl |-> [base |-> BaseUrl, jobId |-> j,
                    t |-> signDownloadToken(j, DefaultTtlSeconds, t)],
   completedAt |-> t]

\* lines 2551-2566: ensureDir(outputs) resolves; writeZip; signDownloadToken;
\* updateJob(completed); fs.remove(workDir) is called
Package(j, outcome) ==
  /\ pc[j] = "packaging"
  /\ IF outcome = "ok" THEN
       /\ artifact' = [artifact EXCEPT ![j] = TRUE]
       /\ jobs' = updateJob(jobs, j, CompletedUpdates(j, now))
       /\ stageLog' = [stageLog EXCEPT ![j] = @ \o Written(jobs, j, <<CompletedUpdates(j, now)>>)]
       /\ removeCalls' = [removeCalls EXCEPT ![j] = @ + 1]
       /\ pc' = [pc EXCEPT ![j] = "successRemove"]
       /\ UNCHANGED thrown
     ELSE
       /\ PbCatch(j, <<>>, IF outcome = "mkdirError" THEN "EACCES: mkdir"
                                                     ELSE "ENOSPC: writeZip")
       /\ UNCHANGED artifact
  /\ UNCHANGED <<nextId, workDir, running, started, oversize, now, ticks, dl>>
  /\ UNCHANGED offJob

\* await fs.remove(workDir) of the success path settles: the function ends,
\* or the rejection lands in the catch block
SuccessRemoveSettles(j, ok) ==
  /\ pc[j] = "successRemove"
  /\ IF ok
       THEN /\ workDir' = [workDir EXCEPT ![j] = FALSE]
            /\ pc' = [pc EXCEPT ![j] = "end"]
            /\ UNCHANGED <<jobs, stageLog, thrown, removeCalls>>
       ELSE /\ PbCatch(j, <<>>, "EBUSY: rmdir")
            /\ UNCHANGED workDir
  /\ UNCHANGED <<nextId, artifact, running, started, oversize, now, ticks, dl>>
  /\ UNCHANGED offJob

\* await fs.remove(workDir).catch(() => {}) of the catch block settles
CatchRemoveSettles(j, ok) ==
  /\ pc[j] = "catchRemove"
  /\ workDir' = [workDir EXCEPT ![j] = IF ok THEN FALSE ELSE @]
  /\ pc' = [pc EXCEPT ![j] = "end"]
  /\ UNCHANGED <<jobs, nextId, artifact, running, started, stageLog, thrown,
                 removeCalls, oversize, now, ticks, dl>>
  /\ UNCHANGED offJob

\* ---------------------------------------------------------------- download
\* the tokens a client can present: the ones recorded in a downloadUrl
KnownTokens ==
  {jobs[k].downloadUrl.t : k \in {x \in DOMAIN jobs : IsSet(jobs[x], "downloadUrl")}}

\* no t in the query: t is ''
NoToken == <<>>

\* (a gate that lets any verifying token pass)
authenticateDownload_AnyJob(bearer, t, jobId, time) ==
  \/ bearer = API_KEY
  \/ /\ t # NoToken
     /\ verifyDownloadToken(t, time) # 0

\* authenticateDownload: the API key as bearer, or ?t=<token> for this job
authenticateDownload(bearer, t, jobId, time) ==
  \/ bearer = API_KEY
  \/ /\ t # NoToken
     /\ verifyDownloadToken(t, time) # 0
     /\ verifyDownloadToken(t, time) = jobId

\* GET /download/:jobId arrives: authenticateDownload, then pathExists is awaited
DlArrives(r, j, bearer, t) ==
  /\ dl[r].pc = "idle"
  /\ dl' = [dl EXCEPT ![r] =
       IF authenticateDownload(bearer, t, j, now)
         THEN [pc |-> "checking", job |-> j]
         ELSE [pc |-> "idle", job |-> 0]]  \* 403: the request is over
  /\ UNCHANGED <<jobs, nextId, pc, workDir, artifact, running, started, stageLog,
                 thrown, removeCalls, oversize, now, ticks>>

DlRequest(r, j, bearer, t) ==
  /\ DlArrives(r, j, bearer, t)
  /\ UNCHANGED offJob

\* the same, with the request and the gate's answer put on record
DlObserved(r, j, bearer, t) ==
  /\ DlArrives(r, j, bearer, t)
  /\ gate' = [seen |-> TRUE, job |-> j, bearer |-> bearer, t |-> t, at |-> now,
              passed |-> (dl'[r].pc = "checking")]
  /\ UNCHANGED offDownload

\* pathExists(outputPath) resolves: 404, or res.download begins
DlChecked(r) ==
  /\ dl[r].pc = "checking"
  /\ dl' = [dl EXCEPT ![r] = IF artifact[dl[r].job]
                               THEN [pc |-> "sending", job |-> dl[r].job]
                               ELSE [pc |-> "idle", job |-> 0]]  \* 404
  /\ UNCHANGED <<jobs, nextId, pc, workDir, artifact, running, started, stageLog,
                 thrown, removeCalls, oversize, now, ticks>>
  /\ UNCHANGED offJob

\* the callback of res.download: an error ends the handler, a completed
\* transfer goes on to fs.remove(outputPath)
DlSent(r, ok) ==
  /\ dl[r].pc = "sending"
  /\ dl' = [dl EXCEPT ![r] = IF ok /\ artifact[dl[r].job]
                               THEN [pc |-> "removing", job |-> dl[r].job]
                               ELSE [pc |-> "idle", job |-> 0]]  \* if (err) return
  /\ UNCHANGED <<jobs, nextId, pc, workDir, artifact, running, started, stageLog,
                 thrown, removeCalls, oversize, now, ticks>>
  /\ UNCHANGED offJob

\* fs.remove(outputPath) acts on the disk (its error, if any, is swallowed)
DlRemoved(r, ok) ==
  /\ dl[r].pc = "removing"
  /\ artifact' = [artifact EXCEPT ![dl[r].job] = IF ok THEN FALSE ELSE @]
  /\ dl' = [dl EXCEPT ![r].pc = "deleting"]
  /\ UNCHANGED <<jobs, nextId, pc, workDir, running, started, stageLog,
                 thrown, removeCalls, oversize, now, ticks>>
  /\ UNCHANGED offJob

\* the await returns: jobs.delete(jobId)
DlDelete(r) ==
  /\ dl[r].pc = "deleting"
  /\ jobs' = MapDelete(jobs, dl[r].job)
  /\ dl' = [dl EXCEPT ![r] = [pc |-> "idle", job |-> 0]]
  /\ UNCHANGED <<nextId, pc, workDir, artifact, running, started, stageLog,
                 thrown, removeCalls, oversize, now, ticks>>
  /\ UNCHANGED offJob

\* the clock: a whole token lifetime, or a second more, passes. The program
\* compares times only in verifyDownloadToken, so the clock stands at its
\* origin until a token has been issued.
Tick(d) ==
  /\ ticks < MaxTicks
  /\ KnownTokens # {}
  /\ now' = now + d
  /\ ticks' = ticks + 1
  /\ UNCHANGED <<jobs, nextId, pc, workDir, artifact, running, started, stageLog,
                 thrown, removeCalls, oversize, dl>>
  /\ UNCHANGED offJob

IoOutcomes == {"ok", "mkdirError", "extractError"}
CommandEvents == {"exit0", "exitN", "timeout", "error"}

\* ======================================================================
\* Archive Guard (scanZip, extractZip) and the streaming build handler
\* ======================================================================
\* An entry name, after fileName.replace(/\\/g, "/"): its segments, whether it
\* starts with "/" and whether it ends with "/".
File(segs) == [abs |-> FALSE, segs |-> segs, dir |-> FALSE]
Dir(segs) == [abs |-> FALSE, segs |-> segs, dir |-> TRUE]
Abs(segs) == [abs |-> TRUE, segs |-> segs, dir |-> FALSE]

Entry(name, size) == [name |-> name, uncompressedSize |-> size]

\* MAX_UNZIPPED_MB * 1024 * 1024
MaxUnzippedBytes == MAX_UNZIPPED_MB * 1024 * 1024

EntryKinds ==
  { Entry(File(<<"a">>), 1),
    Entry(Dir(<<"d">>), 0),
    Entry(File(<<"big">>), MaxUnzippedBytes),
    Entry(File(<<"..", "x">>), 1),
    Entry(Abs(<<"x">>), 1),
    Entry(File(<<"a", "..", "..", "x">>), 1),
    Entry(File(<<"..">>), 1),
    Entry(File(<<"..", ".DS_Store">>), 1),
    Entry(File(<<"__MACOSX", "..", "..", "x">>), 1) }

RECURSIVE SeqsUpTo(_, _)
SeqsUpTo(S, n) ==
  IF n = 0 THEN {<<>>}
  ELSE LET shorter == SeqsUpTo(S, n - 1)
       IN shorter \cup {Append(q, x) : q \in shorter, x \in S}

Archives == SeqsUpTo(EntryKinds, MaxEntries)

\* name.startsWith("__MACOSX/") || name.endsWith(".DS_Store")
IsMetadata(name) ==
  \/ /\ ~name.abs
     /\ name.segs # <<>>
     /\ name.segs[1] = "__MACOSX"
     /\ (Len(name.segs) > 1 \/ name.dir)
  \/ /\ ~name.dir
     /\ name.segs # <<>>
     /\ name.segs[Len(name.segs)] = ".DS_Store"

\* path.posix.normalize: "." segments go, "x/.." pairs go, ".." above the
\* root of an absolute path goes, leading ".." of a relative path stay
RECURSIVE ResolveSegs(_, _, _)
ResolveSegs(segs, acc, abs) ==
  IF segs = <<>> THEN acc
  ELSE LET h == Head(segs)
           acc2 == IF h = "." THEN acc
                   ELSE IF h = ".." THEN
                     IF acc # <<>> /\ acc[Len(acc)] # ".." THEN SubSeq(acc, 1, Len(acc) - 1)
                     ELSE IF abs THEN acc
                     ELSE Append(acc, "..")
                   ELSE Append(acc, h)
       IN ResolveSegs(Tail(segs), acc2, abs)

PosixNormalize(name) ==
  [abs |-> name.abs, segs |-> ResolveSegs(name.segs, <<>>, name.abs), dir |-> name.dir]

\* norm.startsWith("../") || path.posix.isAbsolute(norm)
ZipSlip_RawName(name) ==
  \/ (name.segs # <<>> /\ name.segs[1] = ".." /\ (Len(name.segs) > 1 \/ name.dir))
  \/ name.abs

ZipSlip(name) ==
  LET norm == PosixNormalize(name)
  IN \/ /\ ~norm.abs
        /\ norm.segs # <<>>
        /\ norm.segs[1] = ".."
        /\ (Len(norm.segs) > 1 \/ norm.dir)
     \/ norm.abs

ZipSlipMessage == "Zip slip detected"

\* scanZip: the 'entry' events in order; resolves with the counts at 'end'
RECURSIVE ScanFrom(_, _, _, _)
ScanFrom(entries, i, fileCount, totalUnzipped) ==
  IF i > Len(entries)
    THEN [error |-> NoError, fileCount |-> fileCount, totalUnzipped |-> totalUnzipped]
  ELSE LET name == entries[i].name
       IN IF IsMetadata(name) THEN ScanFrom(entries, i + 1, fileCount, totalUnzipped)
          ELSE IF ZipSlip(name)
            THEN [error |-> ZipSlipMessage, fileCount |-> fileCount,
                  totalUnzipped |-> totalUnzipped]
          ELSE IF ~name.dir
            THEN ScanFrom(entries, i + 1, fileCount + 1,
                          totalUnzipped + entries[i].uncompressedSize)
          ELSE ScanFrom(entries, i + 1, fileCount, totalUnzipped)

scanZip(entries) == ScanFrom(entries, 1, 0, 0)

\* the handler's checks after scanZip (lines 101-107)
CeilingMessage(scan) ==
  IF scan.fileCount > MAX_FILES THEN "Too many files"
  ELSE IF scan.totalUnzipped > MaxUnzippedBytes THEN "Too large extracted"
  ELSE NoError

\* path.join(destDir, norm) as a location relative to destDir: <<>> is destDir,
\* <<"..">> is jobDir, <<"..", "..">> is os.tmpdir()
OutPath(name) == ResolveSegs(name.segs, <<>>, FALSE)

\* destDir and its ancestors: directories that exist before extraction
IsAncestor(loc) == \A k \in 1..Len(loc) : loc[k] = ".."

\* path.dirname
Dirname(loc) ==
  IF IsAncestor(loc) THEN Append(loc, "..") ELSE SubSeq(loc, 1, Len(loc) - 1)

Inside(loc) == loc = <<>> \/ loc[1] # ".."

InJobDir(loc) == Len(loc) < 2 \/ loc[2] # ".."

Made(loc, kind) == [loc |-> loc, kind |-> kind]

IsDirectory(loc) == IsAncestor(loc) \/ Made(loc, "dir") \in written
IsRegularFile(loc) == Made(loc, "file") \in written

\* what mkdir(dir, { recursive: true }) creates
MkdirP(loc) == IF IsAncestor(loc) THEN {} ELSE {Made(loc, "dir")}

StreamInit ==
  /\ variant \in {"v1", "v2"}
  /\ archive \in Archives
  /\ spc = "start"
  /\ extractIdx = 0
  /\ jobDir = FALSE
  /\ cleanupScheduled = FALSE
  /\ rmCalls = 0
  /\ rmPending = FALSE
  /\ closed = FALSE
  /\ written = {}
  /\ spawned = {}
  /\ reply = ""

\* the finally block. v1: await fsp.rm(jobDir). v2: await cleanup(), which
\* returns at once when cleanupScheduled is set.
SFinally ==
  IF variant = "v2" /\ cleanupScheduled
    THEN /\ spc' = "done"
         /\ UNCHANGED <<cleanupScheduled, rmCalls, rmPending>>
    ELSE /\ spc' = "finalRm"
         /\ cleanupScheduled' = (variant = "v2")
         /\ rmCalls' = rmCalls + 1
         /\ rmPending' = TRUE

\* the catch block (400 with the message unless headers were sent), then finally
SCatch(msg) ==
  /\ reply' = IF reply = "" THEN msg ELSE reply
  /\ SFinally

\* the handler up to `try`: the file field, mkdtemp, rename / writeFile, mkdir
SStart(outcome) ==
  /\ spc = "start"
  /\ IF outcome = "noFile"
       THEN /\ reply' = "Missing zip file field 'zip'"
            /\ spc' = "done"
            /\ UNCHANGED jobDir
       ELSE /\ jobDir' = TRUE
            /\ spc' = IF outcome = "ok" THEN "scan" ELSE "crashed"
            /\ UNCHANGED reply
  /\ UNCHANGED <<variant, archive, extractIdx, cleanupScheduled, rmCalls, rmPending,
                 closed, written, spawned>>
  /\ UNCHANGED offStream

\* await scanZip(zipPath), then the two ceilings
SScan ==
  /\ spc = "scan"
  /\ LET scan == scanZip(archive)
         msg == IF scan.error # NoError THEN scan.error ELSE CeilingMessage(scan)
     IN IF msg = NoError
          THEN /\ spc' = "extract"
               /\ extractIdx' = 1
               /\ UNCHANGED <<reply, cleanupScheduled, rmCalls, rmPending>>
          ELSE /\ SCatch(msg)
               /\ UNCHANGED extractIdx
  /\ UNCHANGED <<variant, archive, jobDir, closed, written, spawned>>
  /\ UNCHANGED offStream

\* extractZip: one 'entry' event (or 'end'). v1 repeats the zip-slip check of
\* scanZip, v2 does not.
SExtractEntry(io) ==
  /\ spc = "extract"
  /\ IF extractIdx > Len(archive) THEN
       /\ spc' = "findRoot"
       /\ UNCHANGED <<extractIdx, written, jobDir, reply, cleanupScheduled, rmCalls, rmPending>>
     ELSE
       LET name == archive[extractIdx].name
           loc == OutPath(PosixNormalize(name))
           made == IF name.dir THEN MkdirP(loc)
                   ELSE MkdirP(Dirname(loc)) \cup {Made(loc, "file")}
           msg == IF IsMetadata(name) THEN NoError
                  ELSE IF variant = "v1" /\ ZipSlip(name) THEN ZipSlipMessage
                  ELSE IF ~io THEN "ENOSPC: write"
                  ELSE IF name.dir /\ IsRegularFile(loc) THEN "EEXIST: mkdir"
                  ELSE IF ~name.dir /\ IsDirectory(loc) THEN "EISDIR: open"
                  ELSE NoError
       IN IF IsMetadata(name) THEN
            /\ extractIdx' = extractIdx + 1
            /\ UNCHANGED <<spc, written, jobDir, reply, cleanupScheduled, rmCalls, rmPending>>
          ELSE IF msg # NoError THEN
            /\ SCatch(msg)
            /\ UNCHANGED <<extractIdx, written, jobDir>>
          ELSE
            /\ written' = written \cup made
            /\ jobDir' = (jobDir \/ InJobDir(loc))
            /\ extractIdx' = extractIdx + 1
            /\ UNCHANGED <<spc, reply, cleanupScheduled, rmCalls, rmPending>>
  /\ UNCHANGED <<variant, archive, closed, spawned>>
  /\ UNCHANGED offStream

\* findProjectRoot, package.json and its vite dependency, then npm is spawned
SFindRoot(outcome) ==
  /\ spc = "findRoot"
  /\ IF outcome = "ok"
       THEN /\ spawned' = spawned \cup {"install"}
            /\ spc' = "install"
            /\ UNCHANGED <<reply, cleanupScheduled, rmCalls, rmPending>>
       ELSE /\ SCatch(IF outcome = "noPackageJson" THEN "No package.json found in zip"
                      ELSE "Refusing build: Vite dependency not found")
            /\ UNCHANGED spawned
  /\ UNCHANGED <<variant, archive, extractIdx, jobDir, closed, written>>
  /\ UNCHANGED offStream

\* await runCmd("npm", ...) settles; the vite binary is looked up; vite build
\* is spawned
SInstallSettles(event, viteBin) ==
  /\ spc = "install"
  /\ IF Resolves(event) /\ viteBin
       THEN /\ spawned' = spawned \cup {"build"}
            /\ spc' = "build"
            /\ UNCHANGED <<reply, cleanupScheduled, rmCalls, rmPending>>
       ELSE /\ SCatch(IF Resolves(event) THEN "Vite binary not found"
                      ELSE IF event = "timeout" THEN "Timeout: npm install"
                      ELSE "Failed (1): npm install")
            /\ UNCHANGED spawned
  /\ UNCHANGED <<variant, archive, extractIdx, jobDir, closed, written>>
  /\ UNCHANGED offStream

\* await runCmd("node", [viteBin, "build"]) settles; dist/index.html is
\* checked; the request carries no routes, so v2 skips its prerender step;
\* the headers are set and the archive is piped into the response
SBuildSettles(event, distIndex) ==
  /\ spc = "build"
  /\ IF Resolves(event) /\ distIndex
       THEN /\ reply' = "zip"
            /\ spc' = "respond"
            /\ UNCHANGED <<cleanupScheduled, rmCalls, rmPending>>
       ELSE SCatch(IF Resolves(event) THEN "Build finished but dist/index.html not found"
                   ELSE IF event = "timeout" THEN "Timeout: node vite build"
                   ELSE "Failed (1): node vite build")
  /\ UNCHANGED <<variant, archive, extractIdx, jobDir, closed, written, spawned>>
  /\ UNCHANGED offStream

\* the response finishes, or the stream fails: either way finally runs
SRespond(ok) ==
  /\ spc = "respond"
  /\ IF ok THEN SFinally /\ UNCHANGED reply
           ELSE SCatch("stream error")
  /\ UNCHANGED <<variant, archive, extractIdx, jobDir, closed, written, spawned>>
  /\ UNCHANGED offStream

\* v2: res.on("close", () => cleanup()), registered just before `try`
CloseListening ==
  /\ variant = "v2"
  /\ \/ spc \in {"scan", "extract", "findRoot", "install", "build", "respond", "finalRm"}
     \/ (spc = "done" /\ cleanupScheduled)

SClose ==
  /\ CloseListening
  /\ ~closed
  /\ closed' = TRUE
  /\ IF cleanupScheduled
       THEN UNCHANGED <<cleanupScheduled, rmCalls, rmPending>>
       ELSE /\ cleanupScheduled' = TRUE
            /\ rmCalls' = rmCalls + 1
            /\ rmPending' = TRUE
  /\ UNCHANGED <<variant, archive, spc, extractIdx, jobDir, written, spawned, reply>>
  /\ UNCHANGED offStream

\* fsp.rm(jobDir, { recursive: true, force: true }) acts; the finally block
\* that awaits it returns
SRmActs ==
  /\ rmPending
  /\ rmPending' = FALSE
  /\ jobDir' = FALSE
  /\ spc' = IF spc = "finalRm" THEN "done" ELSE spc
  /\ UNCHANGED <<variant, archive, extractIdx, cleanupScheduled, rmCalls, closed,
                 written, spawned, reply>>
  /\ UNCHANGED offStream

StreamEvents == {"exit0", "exitN", "timeout"}

NextStream ==
  \/ \E o \in {"ok", "noFile", "ioError"} : SStart(o)
  \/ SScan
  \/ \E io \in BOOLEAN : SExtractEntry(io)
  \/ \E o \in {"ok", "noPackageJson", "notVite"} : SFindRoot(o)
  \/ \E e \in StreamEvents, b \in BOOLEAN : SInstallSettles(e, b)
  \/ \E e \in StreamEvents, b \in BOOLEAN : SBuildSettles(e, b)
  \/ \E ok \in BOOLEAN : SRespond(ok)
  \/ SClose
  \/ SRmActs

InitStream == JobInit /\ StreamInit /\ RunIdle /\ FarmIdle /\ TokenInit /\ GateInit /\ RootIdle /\ UploadIdle /\ SeqIdle /\ PortIdle /\ FnIdle

SpecStream == InitStream /\ [][NextStream]_vars

\* the admission handler's continuation, for uploads drawn from ups
SetupStep(ups) == \E j \in JobIds, up \in ups, io \in IoOutcomes : Setup(j, up, io)

\* the steps of processBuild
PipelineSteps ==
  \/ \E j \in JobIds, ok \in BOOLEAN : PbEnsureDir(j, ok)
  \/ \E j \in JobIds, f \in {"found", "none", "ioError"},
        s \in {"ok", "throws"}, i \in {"ok", "throws"} : LocateRoot(j, f, s, i)
  \/ \E j \in JobIds, e \in CommandEvents, s \in BOOLEAN : InstallSettles(j, e, s)
  \/ \E j \in JobIds, e \in CommandEvents, s \in BOOLEAN : BuildSettles(j, e, s)
  \/ \E j \in JobIds, f \in BOOLEAN : FindDist(j, f)
  \/ \E j \in JobIds, o \in {"returns", "closeThrows", "zipThrows"} : PrerenderSettles(j, o)
  \/ \E j \in JobIds, o \in {"ok", "mkdirError", "writeError"} : Package(j, o)
  \/ \E j \in JobIds, ok \in BOOLEAN : SuccessRemoveSettles(j, ok)
  \/ \E j \in JobIds, ok \in BOOLEAN : CatchRemoveSettles(j, ok)

\* the steps of the download endpoint, and the clock
DownloadSteps ==
  \/ \E r \in DlReqs, j \in JobIds, b \in {API_KEY, "wrong-key"},
        t \in KnownTokens \cup {NoToken} : DlRequest(r, j, b, t)
  \/ \E r \in DlReqs : DlChecked(r)
  \/ \E r \in DlReqs, ok \in BOOLEAN : DlSent(r, ok)
  \/ \E r \in DlReqs, ok \in BOOLEAN : DlRemoved(r, ok)
  \/ \E r \in DlReqs : DlDelete(r)
  \/ \E d \in {DefaultTtlSeconds, DefaultTtlSeconds + 1} : Tick(d)

\* every other step of the job server
OtherSteps ==
  \/ \E b \in BOOLEAN : Admit(b)
  \/ PipelineSteps
  \/ DownloadSteps

Next == SetupStep(Uploads) \/ OtherSteps

Spec == Init /\ [][Next]_vars

\* the job server from the credential check of POST /build to the end of the
\* pipeline
NextBoundary ==
  \/ \E h \in Headers, b \in BOOLEAN : AdmitObserved(h, b)
  \/ SetupStep(Uploads)
  \/ PipelineSteps

SpecBoundary == Init /\ [][NextBoundary]_vars

\* a continuation of job j runs
JobMoves(j) == NextBoundary /\ pc'[j] # pc[j]

\* the same, where the event loop runs every continuation that is due: an
\* awaited filesystem call settles, runCommand's promise settles (by the
\* child's close or error event, or by its timer), prerenderRoutes returns
\* or throws (page.goto and waitForSelector carry timeouts)
SpecLive ==
  Init /\ [][NextBoundary]_vars /\ \A j \in JobIds : WF_vars(JobMoves(j))

\* the job server when every uploaded ZIP is over a ceiling
NextOversize == SetupStep(OversizeUploads) \/ OtherSteps

SpecOversize == Init /\ [][NextOversize]_vars

\* ----------------------------------------------------------------------
\* The download endpoint after two builds have completed: two requests can
\* be in flight at once, and clients hold the tokens of both downloadUrls.
BuiltJobs == {1, 2}
Redeemers == {1, 2}

CompletedRecord(j) ==
  Spread([id |-> j, status |-> "processing", progress |-> 0, startTime |-> 0,
          baseUrl |-> BaseUrl],
         CompletedUpdates(j, 0))

HeldTokens == {signDownloadToken(j, DefaultTtlSeconds, 0) : j \in BuiltJobs}

DownloadInit ==
  /\ jobs = [j \in BuiltJobs |-> CompletedRecord(j)]
  /\ nextId = Cardinality(BuiltJobs) + 1
  /\ pc = [j \in BuiltJobs |-> "end"]
  /\ workDir = [j \in BuiltJobs |-> FALSE]
  /\ artifact = [j \in BuiltJobs |-> TRUE]
  /\ running = [j \in BuiltJobs |-> {}]
  /\ started = [j \in BuiltJobs |-> {"install", "build", "render", "package"}]
  /\ stageLog = [j \in BuiltJobs |->
       <<Upd("processing", 0), ExtractingUpdate, StrippingUpdate, InjectingUpdate,
         InstallingUpdate, BuildingUpdate, PrerenderingUpdate, PackagingUpdate,
         Upd("completed", 100)>>]
  /\ thrown = [j \in BuiltJobs |-> NoError]
  /\ removeCalls = [j \in BuiltJobs |-> 1]
  /\ now = 0
  /\ ticks = 0
  /\ dl = [r \in Redeemers |-> [pc |-> "idle", job |-> 0]]
  /\ oversize = [j \in BuiltJobs |-> FALSE]

NextDownload ==
  \/ \E r \in Redeemers, j \in BuiltJobs, b \in {API_KEY, "wrong-key"},
        t \in HeldTokens \cup {NoToken} : DlObserved(r, j, b, t)
  \/ \E r \in Redeemers : DlChecked(r)
  \/ \E r \in Redeemers, ok \in BOOLEAN : DlSent(r, ok)
  \/ \E r \in Redeemers, ok \in BOOLEAN : DlRemoved(r, ok)
  \/ \E r \in Redeemers : DlDelete(r)
  \/ \E d \in {DefaultTtlSeconds, DefaultTtlSeconds + 1} : Tick(d)

InitDownload == DownloadInit /\ Idle

SpecDownload == InitDownload /\ [][NextDownload]_vars

\* ======================================================================
\* Process Supervisor: one run of runCommand / runCmd
\* ======================================================================
Pending == [kind |-> "Pending"]

\* (a promise that takes the latest resolve / reject)
Settle_LastWins(p, o) == o

\* resolve(...) / reject(...) of `new Promise`: the first call settles the
\* promise, later calls do nothing
Settle(p, o) == IF p.kind = "Pending" THEN o ELSE p

\* the 'close' events and the code they carry (null after a signal, negative
\* after a failed spawn)
CloseEvents == {"close0", "closeN", "closeSig", "closeNeg"}

EventOf(q) == IF q = "close0" THEN "exit0" ELSE IF q \in CloseEvents THEN "exitN" ELSE q

CodeOf(q) ==
  CASE q = "close0" -> "0" [] q = "closeN" -> "1" [] q = "closeSig" -> "null"
    [] q = "closeNeg" -> "-2" [] OTHER -> "none"

\* the output a rejection for a non-zero code carries: `${stderr}` in
\* runCommand, `${err || out}` in runCmd
Diagnostics(v, out, err) ==
  IF v = "runCommand" \/ err # 0 THEN [from |-> "stderr", chunks |-> err]
  ELSE [from |-> "stdout", chunks |-> out]

\* what the handler of an event passes to resolve / reject
RunOutcome(v, q, out, err) ==
  LET event == EventOf(q)
  IN IF Resolves(event) THEN [kind |-> "Success", stdout |-> out, stderr |-> err]
     ELSE IF event = "timeout" THEN [kind |-> "TimedOut", message |-> CommandMessage(event)]
     ELSE IF event = "error" THEN [kind |-> "SpawnError", message |-> CommandMessage(event)]
     ELSE [kind |-> "NonZeroExit", code |-> CodeOf(q), message |-> CommandMessage(event),
           output |-> Diagnostics(v, out, err)]

\* proc.kill('SIGTERM') in runCommand, p.kill("SIGKILL") in runCmd
KillSignal(v) == IF v = "runCommand" THEN "SIGTERM" ELSE "SIGKILL"

RunInit ==
  /\ runVariant \in {"runCommand", "runCmd"}
  /\ runPc = "start"
  /\ procs = {}
  /\ forked = FALSE
  /\ timer = "off"
  /\ signal = [name |-> "none", pending |-> FALSE]
  /\ stdoutBuf = 0
  /\ stderrBuf = 0
  /\ queued = {}
  /\ promise = Pending
  /\ settleCalls = 0
  /\ firstEvent = "none"

\* a handler of the run calls resolve / reject
Settles(q) ==
  /\ promise' = Settle(promise, RunOutcome(runVariant, q, stdoutBuf, stderrBuf))
  /\ settleCalls' = settleCalls + 1
  /\ firstEvent' = IF firstEvent = "none" THEN q ELSE firstEvent

\* spawn(...), the listeners and setTimeout; a failed spawn emits 'error' and
\* then 'close' with a negative code
RunSpawn(ok) ==
  /\ runPc = "start"
  /\ runPc' = "running"
  /\ timer' = "armed"
  /\ procs' = IF ok THEN {"child"} ELSE {}
  /\ queued' = IF ok THEN {} ELSE {"error", "closeNeg"}
  /\ UNCHANGED <<runVariant, forked, signal, promise, settleCalls, firstEvent>>
  /\ UNCHANGED <<stdoutBuf, stderrBuf>>
  /\ UNCHANGED offRun

\* the child starts a process of its own (npm starts node, a shell its command)
RunFork ==
  /\ "child" \in procs
  /\ ~forked
  /\ forked' = TRUE
  /\ procs' = procs \cup {"descendant"}
  /\ UNCHANGED <<runVariant, runPc, timer, signal, queued, promise, settleCalls, firstEvent>>
  /\ UNCHANGED <<stdoutBuf, stderrBuf>>
  /\ UNCHANGED offRun

\* proc.stdout.on('data', ...) / proc.stderr.on('data', ...)
RunData(stream) ==
  /\ runPc = "running"
  /\ procs # {}
  /\ IF stream = "stdout"
       THEN stdoutBuf < MaxChunks /\ stdoutBuf' = stdoutBuf + 1 /\ UNCHANGED stderrBuf
       ELSE stderrBuf < MaxChunks /\ stderrBuf' = stderrBuf + 1 /\ UNCHANGED stdoutBuf
  /\ UNCHANGED <<runVariant, runPc, procs, forked, timer, signal, queued, promise,
                 settleCalls, firstEvent>>
  /\ UNCHANGED offRun

\* the child exits on its own
RunChildExits(q) ==
  /\ "child" \in procs
  /\ procs' = procs \ {"child"}
  /\ queued' = queued \cup {q}
  /\ UNCHANGED <<runVariant, runPc, forked, timer, signal, promise, settleCalls, firstEvent>>
  /\ UNCHANGED <<stdoutBuf, stderrBuf>>
  /\ UNCHANGED offRun

\* the descendant exits on its own
RunDescendantExits ==
  /\ "descendant" \in procs
  /\ procs' = procs \ {"descendant"}
  /\ UNCHANGED <<runVariant, runPc, forked, timer, signal, queued, promise, settleCalls,
                 firstEvent>>
  /\ UNCHANGED <<stdoutBuf, stderrBuf>>
  /\ UNCHANGED offRun

\* the timer callback: proc.kill(signal); reject(new Error(timed out))
RunDeadline ==
  /\ runPc = "running"
  /\ timer = "armed"
  /\ timer' = "fired"
  /\ signal' = [name |-> KillSignal(runVariant), pending |-> "child" \in procs]
  /\ Settles("timeout")
  /\ UNCHANGED <<runVariant, runPc, procs, forked, queued>>
  /\ UNCHANGED <<stdoutBuf, stderrBuf>>
  /\ UNCHANGED offRun

\* the signal reaches the child, and only the child: SIGKILL ends it, SIGTERM
\* ends it unless it handles or ignores the signal
RunSignalActs(dies) ==
  /\ signal.pending
  /\ signal' = [signal EXCEPT !.pending = FALSE]
  /\ IF "child" \in procs /\ (signal.name = "SIGKILL" \/ dies)
       THEN /\ procs' = procs \ {"child"}
            /\ queued' = queued \cup {"closeSig"}
       ELSE UNCHANGED <<procs, queued>>
  /\ UNCHANGED <<runVariant, runPc, forked, timer, promise, settleCalls, firstEvent>>
  /\ UNCHANGED <<stdoutBuf, stderrBuf>>
  /\ UNCHANGED offRun

\* proc.on('close', (code) => { clearTimeout; code === 0 ? resolve : reject })
RunClose(q) ==
  /\ runPc = "running"
  /\ q \in queued \cap CloseEvents
  /\ "error" \notin queued
  /\ queued' = queued \ {q}
  /\ timer' = IF timer = "armed" THEN "cleared" ELSE timer
  /\ Settles(q)
  /\ UNCHANGED <<runVariant, runPc, procs, forked, signal>>
  /\ UNCHANGED <<stdoutBuf, stderrBuf>>
  /\ UNCHANGED offRun

\* the 'error' event. runCommand: clearTimeout; reject(err). runCmd has no
\* listener for it: the emitter throws and the server process dies.
RunError ==
  /\ runPc = "running"
  /\ "error" \in queued
  /\ IF runVariant = "runCommand"
       THEN /\ queued' = queued \ {"error"}
            /\ timer' = IF timer = "armed" THEN "cleared" ELSE timer
            /\ Settles("error")
            /\ UNCHANGED runPc
       ELSE /\ runPc' = "crashed"
            /\ queued' = {}
            /\ timer' = "off"
            /\ UNCHANGED <<promise, settleCalls, firstEvent>>
  /\ UNCHANGED <<runVariant, procs, forked, signal>>
  /\ UNCHANGED <<stdoutBuf, stderrBuf>>
  /\ UNCHANGED offRun

NextRun ==
  \/ \E ok \in BOOLEAN : RunSpawn(ok)
  \/ RunFork
  \/ \E st \in {"stdout", "stderr"} : RunData(st)
  \/ \E q \in {"close0", "closeN"} : RunChildExits(q)
  \/ RunDescendantExits
  \/ RunDeadline
  \/ \E dies \in BOOLEAN : RunSignalActs(dies)
  \/ \E q \in CloseEvents : RunClose(q)
  \/ RunError

InitRun == JobInit /\ StreamIdle /\ RunInit /\ FarmIdle /\ TokenInit /\ GateInit /\ RootIdle /\ UploadIdle /\ SeqIdle /\ PortIdle /\ FnIdle

SpecRun == InitRun /\ [][NextRun]_vars

\* ======================================================================
\* Render Farm: prerenderDistToFiles
\* ======================================================================
\* a route: its segments and whether it ends with "/"
Route(segs, slash) == [segs |-> segs, slash |-> slash]

RouteKinds == {Route(<<>>, FALSE), Route(<<"about">>, FALSE),
               Route(<<"about", "team">>, FALSE), Route(<<"about">>, TRUE)}

\* lists of distinct routes
RECURSIVE DistinctSeqs(_, _)
DistinctSeqs(S, n) ==
  IF n = 0 THEN {<<>>}
  ELSE LET shorter == DistinctSeqs(S, n - 1)
       IN shorter \cup {Append(q, x) : q \in shorter, x \in S}

RouteLists ==
  {q \in DistinctSeqs(RouteKinds, MaxRoutes) :
     \A a, b \in 1..Len(q) : a # b => q[a] # q[b]}

\* routeToOutfile: leading and trailing slashes are stripped, index.html is
\* joined on
routeToOutfile(route) == Append(route.segs, "index.html")

\* (a batch that takes every remaining route)
Batch_Rest(list, i) == {k \in 1..Len(list) : k > i}

\* routes.slice(i, i + batchSize), as the indexes (from 1) of the list
Batch(list, i) == {k \in 1..Len(list) : k > i /\ k <= i + PRERENDER_CONCURRENCY}

BatchRoutes(list, i) ==
  [n \in 1..Cardinality(Batch(list, i)) |-> list[i + n]]

\* (a batch that is over as soon as one of its tasks is)
BatchSettled_Any(st, b) == \E k \in b : st[k] = "done"

\* Promise.all over the tasks of a batch resolves when all of them have
BatchSettled(st, b) == \A k \in b : st[k] = "done"

InProgress == {"opening", "rendering", "fallback", "closing"}

\* one turn of the for loop at index i: the batch is sliced and every task of
\* it runs up to its first await (context.newPage()); past the end of the
\* list, context.close() is awaited
LoopAt(i) ==
  IF i < Len(farmRoutes)
    THEN /\ farmPc' = "awaitAll"
         /\ batchAt' = i
         /\ rstate' = [k \in 1..Len(farmRoutes) |->
                         IF k \in Batch(farmRoutes, i) THEN "opening" ELSE rstate[k]]
         /\ batchLog' = Append(batchLog, BatchRoutes(farmRoutes, i))
    ELSE /\ farmPc' = "closing"
         /\ batchAt' = i
         /\ UNCHANGED <<rstate, batchLog>>

FarmInit ==
  /\ farmRoutes \in RouteLists
  /\ farmPc = "start"
  /\ batchAt = 0
  /\ rstate = [k \in 1..Len(farmRoutes) |-> "waiting"]
  /\ docs = {BuiltIndex}
  /\ farmResult = [success |-> 0, failed |-> <<>>]
  /\ batchLog = <<>>

\* startStaticDistServer, chromium.launch and browser.newContext settle
FarmLaunch(ok) ==
  /\ farmPc = "start"
  /\ IF ok THEN LoopAt(0)
           ELSE /\ farmPc' = "threw"
                /\ UNCHANGED <<batchAt, rstate, batchLog>>
  /\ UNCHANGED <<farmRoutes, docs, farmResult>>
  /\ UNCHANGED offFarm

\* await context.newPage() settles. A rejection is outside the task's try: the
\* task rejects, Promise.all rejects and the function leaves through finally.
RouteOpened(k, ok) ==
  /\ farmPc \in {"awaitAll", "aborting"}
  /\ rstate[k] = "opening"
  /\ rstate' = [rstate EXCEPT ![k] = IF ok THEN "rendering" ELSE "rejected"]
  /\ farmPc' = IF ok THEN farmPc ELSE "aborting"
  /\ UNCHANGED <<farmRoutes, batchAt, docs, farmResult, batchLog>>
  /\ UNCHANGED offFarm

\* the file a task writes replaces what was at that location
WriteDoc(route, kind) ==
  {d \in docs : d.loc # routeToOutfile(route)} \cup
    {[loc |-> routeToOutfile(route), kind |-> kind]}

\* writeFallbackHtml: what is read from dist/index.html at that moment is
\* written at the route's location
WriteFallback(route) ==
  LET index == CHOOSE d \in docs : d.loc = <<"index.html">>
      read == IF index.kind = "fallback" THEN index.from ELSE index.kind
  IN {d \in docs : d.loc # routeToOutfile(route)} \cup
       {[loc |-> routeToOutfile(route), kind |-> "fallback", from |-> read]}

\* prerenderSingleRoute settles: the markup was written (success++), or it
\* threw (failed.push(route)) and writeFallbackHtml is awaited
RouteRendered(k, ok) ==
  /\ farmPc \in {"awaitAll", "aborting"}
  /\ rstate[k] = "rendering"
  /\ IF ok
       THEN /\ docs' = WriteDoc(farmRoutes[k], "rendered")
            /\ farmResult' = [farmResult EXCEPT !.success = @ + 1]
            /\ rstate' = [rstate EXCEPT ![k] = "closing"]
       ELSE /\ farmResult' = [farmResult EXCEPT !.failed = Append(@, farmRoutes[k])]
            /\ rstate' = [rstate EXCEPT ![k] = "fallback"]
            /\ UNCHANGED docs
  /\ UNCHANGED <<farmRoutes, farmPc, batchAt, batchLog>>
  /\ UNCHANGED offFarm

\* writeFallbackHtml settles: the copy of index.html was written, or its
\* error was swallowed; then page.close() is awaited
RouteFallback(k, ok) ==
  /\ farmPc \in {"awaitAll", "aborting"}
  /\ rstate[k] = "fallback"
  /\ docs' = IF ok THEN WriteFallback(farmRoutes[k]) ELSE docs
  /\ rstate' = [rstate EXCEPT ![k] = "closing"]
  /\ UNCHANGED <<farmRoutes, farmPc, batchAt, farmResult, batchLog>>
  /\ UNCHANGED offFarm

\* page.close().catch(() => {}) settles: the task is fulfilled
RouteClosed(k) ==
  /\ farmPc \in {"awaitAll", "aborting"}
  /\ rstate[k] = "closing"
  /\ rstate' = [rstate EXCEPT ![k] = "done"]
  /\ UNCHANGED <<farmRoutes, farmPc, batchAt, docs, farmResult, batchLog>>
  /\ UNCHANGED offFarm

\* await Promise.all(...) returns: i += batchSize and the loop goes on
FarmBatchDone ==
  /\ farmPc = "awaitAll"
  /\ BatchSettled(rstate, Batch(farmRoutes, batchAt))
  /\ LoopAt(batchAt + PRERENDER_CONCURRENCY)
  /\ UNCHANGED <<farmRoutes, docs, farmResult>>
  /\ UNCHANGED offFarm

\* context.close() settles; finally: browser.close(), server.close(); return
FarmClose(ok) ==
  /\ farmPc = "closing"
  /\ farmPc' = IF ok THEN "returned" ELSE "threw"
  /\ UNCHANGED <<farmRoutes, batchAt, rstate, docs, farmResult, batchLog>>
  /\ UNCHANGED offFarm

\* the rejection of Promise.all leaves through finally: the browser is closed
\* under the tasks still running, and the function throws
FarmAbort ==
  /\ farmPc = "aborting"
  /\ farmPc' = "threw"
  /\ UNCHANGED <<farmRoutes, batchAt, rstate, docs, farmResult, batchLog>>
  /\ UNCHANGED offFarm

NextFarm ==
  \/ \E ok \in BOOLEAN : FarmLaunch(ok)
  \/ \E k \in 1..Len(farmRoutes), ok \in BOOLEAN : RouteOpened(k, ok)
  \/ \E k \in 1..Len(farmRoutes), ok \in BOOLEAN : RouteRendered(k, ok)
  \/ \E k \in 1..Len(farmRoutes), ok \in BOOLEAN : RouteFallback(k, ok)
  \/ \E k \in 1..Len(farmRoutes) : RouteClosed(k)
  \/ FarmBatchDone
  \/ \E ok \in BOOLEAN : FarmClose(ok)
  \/ FarmAbort

InitFarm == JobInit /\ StreamIdle /\ RunIdle /\ FarmInit /\ TokenInit /\ GateInit /\ RootIdle /\ UploadIdle /\ SeqIdle /\ PortIdle /\ FnIdle

SpecFarm == InitFarm /\ [][NextFarm]_vars

\* ======================================================================
\* Download Authorizer: signDownloadToken and verifyDownloadToken
\* ======================================================================
TokenJobs == {1, 2}
Ttls == 1..MaxTtl
ExpNums == 0..(MaxClock + MaxTtl)

\* the texts an expiry part can be
ExpStrs ==
  {[text |-> x, n |-> n] : x \in {"dec", "padded"}, n \in ExpNums}
    \cup {[text |-> "empty", n |-> 0], [text |-> "word", n |-> 0]}

\* the texts a signature part can be: digests under the secret and under
\* another key, the empty text, a shorter text, 64 other characters, and 64
\* characters of which one is not ASCII
SigStrs ==
  {Hmac(k, <<j, n>>) : k \in {API_KEY, "other-key"}, j \in TokenJobs, n \in ExpNums}
    \cup {SigText(0, 0, 0), SigText(1, 10, 10), SigText(2, 64, 64), SigText(3, 64, 65)}

ThreeParts == {<<j, x, g>> : j \in TokenJobs \cup {0}, x \in ExpStrs, g \in SigStrs}

\* what token.split('.') can be: three parts, or fewer, or more
TokenInputs ==
  ThreeParts
    \cup {<<>>}
    \cup {<<j, Str(n)>> : j \in TokenJobs, n \in ExpNums}
    \cup {<<j, Str(n), Hmac(API_KEY, <<j, n>>), Str(n)>> : j \in TokenJobs, n \in ExpNums}

\* signDownloadToken(jobId, ttlSeconds) is called
TkSign(jobId, ttl) ==
  /\ tkIssued' = tkIssued \cup
       {[jobId |-> jobId, ttl |-> ttl, t0 |-> tkNow,
         token |-> signDownloadToken(jobId, ttl, tkNow)]}
  /\ tkIssued' # tkIssued
  /\ tkIssued = {}
  /\ UNCHANGED <<tkNow, tkChecked>>
  /\ UNCHANGED offToken

\* a second passes
TkTick ==
  /\ tkNow < MaxClock
  /\ tkNow' = tkNow + 1
  /\ UNCHANGED <<tkIssued, tkChecked>>
  /\ UNCHANGED offToken

\* verifyDownloadToken(token) is called (one call is observed)
TkVerify(token) ==
  /\ ~tkChecked.called
  /\ tkChecked' = [called |-> TRUE, token |-> token, at |-> tkNow,
                   result |-> verifyDownloadToken(token, tkNow)]
  /\ UNCHANGED <<tkNow, tkIssued>>
  /\ UNCHANGED offToken

NextToken ==
  \/ \E j \in TokenJobs, ttl \in Ttls : TkSign(j, ttl)
  \/ TkTick
  \/ \E token \in TokenInputs : TkVerify(token)

InitToken == JobInit /\ Idle

SpecToken == InitToken /\ [][NextToken]_vars

\* ======================================================================
\* Streaming server: the upload and the staging of concurrent requests
\* ======================================================================
\* `upload-${Date.now()}.zip` and `job-${Date.now()}`: the name is the
\* millisecond it was made in
NameAt(ms) == ms + 1

\* the name a request makes at a millisecond
NameOf(r, ms) == NameAt(ms)

\* fsp.mkdtemp: a directory that did not exist
Mkdtemp == 1 + Cardinality({q \in UploadReqs : reqs[q].jobDir # 0})

\* multer's diskStorage stores the upload of a request under
\* os.tmpdir()/upload-<ms>.zip (over a file of that name, if there is one)
UpReceive(r) ==
  /\ reqs[r].pc = "idle"
  /\ reqs' = [reqs EXCEPT ![r] = [@ EXCEPT !.pc = "uploaded", !.file = NameOf(r, msNow)]]
  /\ tmpFiles' = tmpFiles \cup {NameOf(r, msNow)}
  /\ UNCHANGED msNow
  /\ UNCHANGED offUpload

\* the handler starts: jobId = `job-${Date.now()}`, mkdtemp is awaited
UpHandle(r) ==
  /\ reqs[r].pc = "uploaded"
  /\ reqs' = [reqs EXCEPT ![r] = [@ EXCEPT !.pc = "mkdtemp", !.jobId = NameOf(r, msNow)]]
  /\ UNCHANGED <<msNow, tmpFiles>>
  /\ UNCHANGED offUpload

\* mkdtemp resolves, fsp.rename(uploadedZipPath, zipPath) settles: the file
\* moves into jobDir, or it is gone already and the rename rejects (outside
\* the try block)
UpRename(r) ==
  /\ reqs[r].pc = "mkdtemp"
  /\ reqs' = [reqs EXCEPT ![r] =
       [@ EXCEPT !.pc = IF reqs[r].file \in tmpFiles THEN "staged" ELSE "renameRejected",
                 !.jobDir = Mkdtemp]]
  /\ tmpFiles' = tmpFiles \ {reqs[r].file}
  /\ UNCHANGED msNow
  /\ UNCHANGED offUpload

\* a millisecond passes
UpTick ==
  /\ msNow < MaxMs
  /\ msNow' = msNow + 1
  /\ UNCHANGED <<reqs, tmpFiles>>
  /\ UNCHANGED offUpload

NextUpload ==
  \/ \E r \in UploadReqs : UpReceive(r)
  \/ \E r \in UploadReqs : UpHandle(r)
  \/ \E r \in UploadReqs : UpRename(r)
  \/ UpTick

InitUpload == JobInit /\ Idle

SpecUpload == InitUpload /\ [][NextUpload]_vars

\* ======================================================================
\* Renderers that take the routes one after the other: prerenderRoutes
\* (src/server.js 2365-2474) and prerenderDistToFiles (src/unnamed/part_000
\* 409-461)
\* ======================================================================
IsJobServer == seqVariant = "prerenderRoutes"

SeqInit ==
  /\ seqVariant \in {"prerenderRoutes", "prerenderDistToFiles"}
  /\ seqPc = IF IsJobServer THEN "import" ELSE "server"
  /\ seqAt = 0
  /\ seqBrowser = "none"
  /\ seqServer = "none"
  /\ seqOut = [k \in SeqRoutes |-> "none"]
  /\ seqResult = [success |-> {}, failed |-> {}]
  /\ seqPages = {}
  /\ seqLate = {}

\* what leaves the try block of a route by an exception
RouteErrors == {"page", "navigation", "timeout", "write"}

\* results.failed = routes.map(r => ({ route: r, error: err.message }))
AllFailed ==
  [success |-> seqResult.success,
   failed |-> {[route |-> k, error |-> "browser"] : k \in SeqRoutes}]

\* prerenderRoutes: await import('playwright-chromium') settles; a rejection
\* returns { skipped: true }
SeqImport(ok) ==
  /\ seqPc = "import"
  /\ seqPc' = IF ok THEN "server" ELSE "returned"
  /\ UNCHANGED <<seqVariant, seqAt, seqBrowser, seqServer, seqOut, seqResult,
                 seqPages, seqLate>>
  /\ UNCHANGED offSeq

\* the static server is up, or its start rejected: prerenderRoutes returns
\* every route as failed, prerenderDistToFiles throws
SeqServer(ok) ==
  /\ seqPc = "server"
  /\ IF ok THEN /\ seqServer' = "up"
                /\ seqPc' = "launch"
                /\ UNCHANGED seqResult
           ELSE /\ seqPc' = IF IsJobServer THEN "returned" ELSE "threw"
                /\ seqResult' = IF IsJobServer THEN AllFailed ELSE seqResult
                /\ UNCHANGED seqServer
  /\ UNCHANGED <<seqVariant, seqAt, seqBrowser, seqOut, seqPages, seqLate>>
  /\ UNCHANGED offSeq

\* what runs when the try block is left by an exception before a browser is
\* there, or with one. prerenderRoutes: catch (failed = all routes), then
\* finally awaits browser.close() if there is a browser, else stops the
\* server and returns. prerenderDistToFiles: finally stops the server, and
\* the exception goes on.
SeqLeave(browser) ==
  /\ seqBrowser' = browser
  /\ IF IsJobServer
       THEN /\ seqResult' = AllFailed
            /\ seqPc' = IF browser = "open" THEN "finally" ELSE "returned"
            /\ seqServer' = IF browser = "open" THEN seqServer ELSE "closed"
       ELSE /\ seqPc' = "threw"
            /\ seqServer' = "closed"
            /\ UNCHANGED seqResult

\* the loop goes to the route after k, or is over: prerenderRoutes reaches
\* its finally block, prerenderDistToFiles awaits browser.close()
SeqGoOn(k) ==
  IF k + 1 \in SeqRoutes
    THEN seqPc' = "route" /\ seqAt' = k + 1
    ELSE seqPc' = (IF IsJobServer THEN "finally" ELSE "close") /\ seqAt' = k

\* chromium.launch settles
SeqLaunch(ok) ==
  /\ seqPc = "launch"
  /\ IF ok THEN /\ seqBrowser' = "open"
                /\ seqPc' = "context"
                /\ UNCHANGED <<seqServer, seqResult>>
           ELSE SeqLeave("none")
  /\ UNCHANGED <<seqVariant, seqAt, seqOut, seqPages, seqLate>>
  /\ UNCHANGED offSeq

\* browser.newContext (prerenderRoutes) or browser.newPage
\* (prerenderDistToFiles) settles; then the loop starts
SeqContext(ok) ==
  /\ seqPc = "context"
  /\ IF ok THEN /\ SeqGoOn(0)
                /\ seqPages' = IF IsJobServer THEN seqPages ELSE {0}
                /\ UNCHANGED <<seqBrowser, seqServer, seqResult>>
           ELSE /\ SeqLeave("open")
                /\ UNCHANGED <<seqAt, seqPages>>
  /\ UNCHANGED <<seqVariant, seqOut, seqLate>>
  /\ UNCHANGED offSeq

\* the try block of one route is through (the route's markup is written) or
\* was left by an exception: newPage threw, goto threw or ran into its
\* timeout, or content, ensureDir or writeFile threw. Before the markup is
\* read the wait for the root element may run out ("rootWait"):
\* prerenderRoutes catches that and goes on to write the markup,
\* prerenderDistToFiles is taken to its catch block by it. prerenderRoutes
\* keeps the result lists: it pushes the route to success and closes the
\* page, or pushes it to failed with the error and leaves the page as it
\* is. prerenderDistToFiles keeps no list and goes to write the fallback.
SeqRoute(outcome) ==
  /\ seqPc = "route"
  /\ seqLate' = IF outcome = "rootWait" THEN seqLate \cup {seqAt} ELSE seqLate
  /\ IF outcome = "rendered" \/ (outcome = "rootWait" /\ IsJobServer)
       THEN /\ seqOut' = [seqOut EXCEPT ![seqAt] = "rendered"]
            /\ seqResult' = IF IsJobServer
                              THEN [seqResult EXCEPT !.success = @ \cup {seqAt}]
                              ELSE seqResult
            /\ SeqGoOn(seqAt)
            /\ UNCHANGED seqPages
       ELSE /\ UNCHANGED seqOut
            /\ IF IsJobServer
                 THEN /\ seqResult' = [seqResult EXCEPT !.failed =
                                         @ \cup {[route |-> seqAt, error |-> outcome]}]
                      /\ seqPages' = IF outcome = "page" THEN seqPages
                                                          ELSE seqPages \cup {seqAt}
                      /\ SeqGoOn(seqAt)
                 ELSE /\ seqPc' = "fallback"
                      /\ UNCHANGED <<seqAt, seqResult, seqPages>>
  /\ UNCHANGED <<seqVariant, seqBrowser, seqServer>>
  /\ UNCHANGED offSeq

\* prerenderDistToFiles, catch block of a route: readFile, mkdir, writeFile
\* of the fallback are through, or one of them threw
SeqFallback(ok) ==
  /\ seqPc = "fallback"
  /\ IF ok THEN /\ seqOut' = [seqOut EXCEPT ![seqAt] = "fallback"]
                /\ SeqGoOn(seqAt)
                /\ UNCHANGED <<seqBrowser, seqServer, seqResult>>
           ELSE /\ SeqLeave(seqBrowser)
                /\ UNCHANGED <<seqAt, seqOut>>
  /\ UNCHANGED <<seqVariant, seqPages, seqLate>>
  /\ UNCHANGED offSeq

\* await browser.close() settles. prerenderRoutes (in finally): then
\* server.close() and return, or the rejection leaves the finally block.
\* prerenderDistToFiles (in try): finally stops the server either way.
SeqBrowserClose(ok) ==
  /\ seqPc \in {"finally", "close"}
  /\ seqBrowser' = IF ok THEN "closed" ELSE seqBrowser
  /\ seqPc' = IF ok THEN "returned" ELSE "threw"
  /\ seqServer' = IF ok \/ ~IsJobServer THEN "closed" ELSE seqServer
  /\ seqPages' = IF ok THEN {} ELSE seqPages
  /\ UNCHANGED <<seqVariant, seqAt, seqOut, seqResult, seqLate>>
  /\ UNCHANGED offSeq

NextSeq ==
  \/ \E ok \in BOOLEAN : SeqImport(ok)
  \/ \E ok \in BOOLEAN : SeqServer(ok)
  \/ \E ok \in BOOLEAN : SeqLaunch(ok)
  \/ \E ok \in BOOLEAN : SeqContext(ok)
  \/ \E outcome \in {"rendered", "rootWait"} \cup RouteErrors : SeqRoute(outcome)
  \/ \E ok \in BOOLEAN : SeqFallback(ok)
  \/ \E ok \in BOOLEAN : SeqBrowserClose(ok)

InitSeq ==
  /\ JobInit /\ StreamIdle /\ RunIdle /\ FarmIdle /\ TokenInit /\ GateInit
  /\ RootIdle /\ UploadIdle /\ SeqInit /\ PortIdle /\ FnIdle

SpecSeq == InitSeq /\ [][NextSeq]_vars

\* ======================================================================
\* The port of the static server: prerenderRoutes of the job server
\* (3456 + Math.floor(Math.random() * 1000)), prerenderRoutes of
\* src/prerender.js (port = 3456), startStaticDistServer (listen(0))
\* ======================================================================
PortInit ==
  /\ portPolicy \in {"random", "fixed", "ephemeral"}
  /\ srv = [r \in Renders |-> NoServer]

\* the ports on which a static server listens
Bound == {srv[r].port : r \in {q \in Renders : srv[q].state = "up"}}

\* the ports a render can come to ask for: any port of the range, the one
\* default port, or (listen(0)) a port the system has free
PortChoices ==
  CASE portPolicy = "random" -> Ports
    [] portPolicy = "fixed" -> {1}
    [] portPolicy = "ephemeral" -> Ports \ Bound

\* server.listen(port, '127.0.0.1') settles for render r: the server
\* listens, or the 'error' event (EADDRINUSE) rejects the start
Listen(r, port) ==
  /\ srv[r].state = "none"
  /\ port \in PortChoices
  /\ srv' = [srv EXCEPT ![r] = [state |-> IF port \in Bound THEN "failed" ELSE "up",
                                port |-> port]]
  /\ UNCHANGED portPolicy
  /\ UNCHANGED offPort

\* server.close() at the end of the render
Unlisten(r) ==
  /\ srv[r].state = "up"
  /\ srv' = [srv EXCEPT ![r].state = "closed"]
  /\ UNCHANGED portPolicy
  /\ UNCHANGED offPort

NextPort ==
  \/ \E r \in Renders, port \in Ports : Listen(r, port)
  \/ \E r \in Renders : Unlisten(r)

InitPort ==
  /\ JobInit /\ StreamIdle /\ RunIdle /\ FarmIdle /\ TokenInit /\ GateInit
  /\ RootIdle /\ UploadIdle /\ SeqIdle /\ PortInit /\ FnIdle

SpecPort == InitPort /\ [][NextPort]_vars

\* ======================================================================
\* The route list of a request: parseRoutesFromRequest (src/unnamed/part_001
\* 344-386, src/server.js 1095-1117) and selectedRoutes of the job server.
\* A string is the sequence of its characters.
\* ======================================================================
RouteStrings ==
  {<<>>, <<"/">>, <<"/", "a">>, <<"a">>, <<"/", "b">>, <<"/", "a", "/">>,
   <<"/", "a", "/", "b">>, <<"/", "/", "a">>, <<" ", "/", "a">>,
   <<"/", "a", "?", "b">>, <<"/", ".", ".">>, <<"/", "a", " ", "b">>}

\* the arrays JSON.parse can give for the routes field
RouteArrays == UNION {[1..n -> RouteStrings] : n \in 0..MaxListLen}

\* the chain of map and filter calls
Cleaned(parsed) ==
  LET First(S) == CHOOSE i \in S : \A k \in S : i <= k
      Last(S) == CHOOSE i \in S : \A k \in S : i >= k
      \* String(r).trim()
      Trim(r) == LET ink == {i \in DOMAIN r : r[i] # " "}
                 IN IF ink = {} THEN <<>> ELSE SubSeq(r, First(ink), Last(ink))
      \* r.startsWith("/") ? r : `/${r}`
      WithSlash(r) == IF Head(r) = "/" THEN r ELSE <<"/">> \o r
      \* r.replace(/[?#].*$/, "")
      CutQuery(r) == LET marks == {i \in DOMAIN r : r[i] \in {"?", "#"}}
                     IN IF marks = {} THEN r ELSE SubSeq(r, 1, First(marks) - 1)
      \* r.replace(/^\/+/, "/")
      OneLeadingSlash(r) ==
        LET other == {i \in DOMAIN r : r[i] # "/"}
        IN IF r = <<>> \/ Head(r) # "/" THEN r
           ELSE IF other = {} THEN <<"/">>
           ELSE <<"/">> \o SubSeq(r, First(other), Len(r))
      \* r.replace(/\s+/g, "")
      NoSpaces(r) == SelectSeq(r, LAMBDA c : c # " ")
      \* r.includes("..")
      HasDotDot(r) == \E i \in 1..(Len(r) - 1) : r[i] = "." /\ r[i + 1] = "."
      trimmed == [i \in DOMAIN parsed |-> Trim(parsed[i])]
      truthy == SelectSeq(trimmed, LAMBDA r : r # <<>>)
      mapped == [i \in DOMAIN truthy |->
                   NoSpaces(OneLeadingSlash(CutQuery(WithSlash(truthy[i]))))]
  IN SelectSeq(mapped, LAMBDA r : /\ r # <<>> /\ Head(r) = "/"
                                  /\ ~HasDotDot(r)
                                  /\ Len(r) < 200)

\* Array.from(new Set(cleaned)): the first occurrence of each value, in order
RECURSIVE Uniq(_)
Uniq(list) ==
  IF list = <<>> THEN <<>>
  ELSE LET init == SubSeq(list, 1, Len(list) - 1)
           last == list[Len(list)]
       IN IF \E i \in DOMAIN init : init[i] = last THEN Uniq(init)
          ELSE Append(Uniq(init), last)

\* (a.match(/\//g) || []).length
SlashCount(s) == Len(SelectSeq(s, LAMBDA c : c = "/"))

\* uniq.sort((a, b) => depthA - depthB): the sort is stable, so a route
\* goes before the routes of its own slash count that came after it
RECURSIVE InsertRoute(_, _)
InsertRoute(x, sorted) ==
  IF sorted = <<>> THEN <<x>>
  ELSE IF SlashCount(x) <= SlashCount(Head(sorted)) THEN <<x>> \o sorted
  ELSE <<Head(sorted)>> \o InsertRoute(x, Tail(sorted))

RECURSIVE SortRoutes(_)
SortRoutes(list) ==
  IF list = <<>> THEN <<>>
  ELSE InsertRoute(Head(list), SortRoutes(Tail(list)))

parseRoutesFromRequest(parsed) ==
  LET uniq == Uniq(Cleaned(parsed))
      cut == IF Len(uniq) > PRERENDER_MAX_ROUTES
               THEN SubSeq(uniq, 1, PRERENDER_MAX_ROUTES) ELSE uniq
      withRoot == IF cut # <<>> /\ ~(\E i \in DOMAIN cut : cut[i] = <<"/">>)
                    THEN <<<<"/">>>> \o cut ELSE cut
  IN SortRoutes(withRoot)

RoutesInit ==
  /\ fnName = ""
  /\ fnArg \in RouteArrays
  /\ fnRes = <<>>

\* the streaming handler: routes = parseRoutesFromRequest(req)
ParseRoutes ==
  /\ fnName = ""
  /\ fnName' = "parseRoutesFromRequest"
  /\ fnRes' = parseRoutesFromRequest(fnArg)
  /\ UNCHANGED fnArg
  /\ UNCHANGED offFn

\* the job server: selectedRoutes = JSON.parse(req.body.selectedRoutes) goes
\* to prerenderRoutes as it is
SelectRoutes ==
  /\ fnName = ""
  /\ fnName' = "selectedRoutes"
  /\ fnRes' = fnArg
  /\ UNCHANGED fnArg
  /\ UNCHANGED offFn

NextRoutes == ParseRoutes \/ SelectRoutes

InitRoutes ==
  /\ JobInit /\ StreamIdle /\ RunIdle /\ FarmIdle /\ TokenInit /\ GateInit
  /\ RootIdle /\ UploadIdle /\ SeqIdle /\ PortIdle /\ RoutesInit

SpecRoutes == InitRoutes /\ [][NextRoutes]_vars

\* ======================================================================
\* The injected route guard: the code generateRouteGuardCode writes into
\* the application (src/server.js 2215-2233)
\* ======================================================================
PathStrings ==
  {<<>>, <<"/">>, <<"/", "a">>, <<"/", "A">>, <<"/", "a", "/">>, <<"/", "b">>,
   <<"a">>, <<"/", "a", "?", "b">>, <<"/", "a", "#", "b">>, <<"/", "/", "a">>,
   <<"/", "a", "/", "b">>}

\* the selected routes of a build
GuardLists == UNION {[1..n -> PathStrings] : n \in 0..MaxListLen}

\* '/' + path.split('?')[0].split('#')[0].replace(/^\/+|\/+$/g, '').toLowerCase()
normalizeRoute(path) ==
  LET First(S) == CHOOSE i \in S : \A k \in S : i <= k
      Last(S) == CHOOSE i \in S : \A k \in S : i >= k
      Before(r, c) == LET marks == {i \in DOMAIN r : r[i] = c}
                      IN IF marks = {} THEN r ELSE SubSeq(r, 1, First(marks) - 1)
      NoEdgeSlashes(r) == LET other == {i \in DOMAIN r : r[i] # "/"}
                          IN IF other = {} THEN <<>>
                             ELSE SubSeq(r, First(other), Last(other))
      Lower(c) == CASE c = "A" -> "a" [] c = "B" -> "b" [] OTHER -> c
      bare == NoEdgeSlashes(Before(Before(path, "?"), "#"))
  IN IF path = <<>> THEN <<"/">>
     ELSE <<"/">> \o [i \in DOMAIN bare |-> Lower(bare[i])]

\* the loop over TF_ALLOWED_ROUTES, then the last line: true when some
\* allowed route normalizes to '/' (or to '')
isRouteAllowed(pathname, allowed) ==
  LET normalized == normalizeRoute(pathname)
  IN \/ \E i \in DOMAIN allowed :
          LET normalizedRoute == normalizeRoute(allowed[i])
          IN \/ normalized = normalizedRoute
             \/ normalized = normalizedRoute \o <<"/">>
             \/ normalized \o <<"/">> = normalizedRoute
     \/ \E i \in DOMAIN allowed : normalizeRoute(allowed[i]) \in {<<"/">>, <<>>}

GuardInit ==
  /\ fnName = ""
  /\ fnArg \in [pathname : PathStrings, allowed : GuardLists]
  /\ fnRes = <<>>

\* checkRoute: setIsAllowed(isRouteAllowed(window.location.pathname))
CheckRoute ==
  /\ fnName = ""
  /\ fnName' = "isRouteAllowed"
  /\ fnRes' = isRouteAllowed(fnArg.pathname, fnArg.allowed)
  /\ UNCHANGED fnArg
  /\ UNCHANGED offFn

NextGuard == CheckRoute

InitGuard ==
  /\ JobInit /\ StreamIdle /\ RunIdle /\ FarmIdle /\ TokenInit /\ GateInit
  /\ RootIdle /\ UploadIdle /\ SeqIdle /\ PortIdle /\ GuardInit

SpecGuard == InitGuard /\ [][NextGuard]_vars

\* ======================================================================
\* stripUnusedRoutes, the loop over the lines of App.tsx (src/server.js
\* 2120-2154). A line is what the loop reads of it: the path of a
\* <Route ... path="..."> it opens and whether shouldKeepRoute keeps that
\* path, whether the trimmed line ends with '/>', whether it contains
\* '</Route>'. `removed` is not read by the code: it says whether the line
\* belongs to a Route element whose path is not kept. The files have no
\* blank lines and no import statements, which the later passes of the
\* function would touch.
\* ======================================================================
Line(path, selfClose, closeTag, removed) ==
  [path |-> path, selfClose |-> selfClose, closeTag |-> closeTag, removed |-> removed]

\* the pieces a file is made of, for a path that is kept or dropped:
\*   <Routes>
\*   <Route path="/x" element={<X />} />
\*   <Route path="/x" | element={<X>text</X>} | />
\*   <Route path="/x" element={ | <X /> | } />
\*   <Route path="/x" element={<L />}> | <Route index element={<I />} /> | </Route>
\*   <Route path="/x" element={<X />}></Route>
Pieces ==
  {<<Line("none", FALSE, FALSE, FALSE)>>}
  \cup UNION {
    LET r == (k = "dropped")
    IN {<<Line(k, TRUE, FALSE, r)>>,
        <<Line(k, FALSE, FALSE, r), Line("none", FALSE, FALSE, r), Line("none", TRUE, FALSE, r)>>,
        <<Line(k, FALSE, FALSE, r), Line("none", TRUE, FALSE, r), Line("none", TRUE, FALSE, r)>>,
        <<Line(k, FALSE, FALSE, r), Line("none", TRUE, FALSE, r), Line("none", FALSE, TRUE, r)>>,
        <<Line(k, FALSE, TRUE, r)>>}
    : k \in {"kept", "dropped"}}

RECURSIVE Concat(_)
Concat(ps) == IF ps = <<>> THEN <<>> ELSE Head(ps) \o Concat(Tail(ps))

SourceFiles == {Concat(ps) : ps \in UNION {[1..n -> Pieces] : n \in 0..MaxPieces}}

\* the for loop from line i on, with the value of `skipping`: the indices
\* of the lines pushed to resultLines
RECURSIVE StripLines(_, _, _)
StripLines(lines, i, skipping) ==
  IF i > Len(lines) THEN <<>>
  ELSE LET line == lines[i]
       IN IF skipping
            THEN StripLines(lines, i + 1, ~(line.selfClose \/ line.closeTag))
          ELSE IF line.path = "dropped"
            THEN StripLines(lines, i + 1, ~line.selfClose)
          ELSE <<i>> \o StripLines(lines, i + 1, FALSE)

StripInit ==
  /\ fnName = ""
  /\ fnArg \in SourceFiles
  /\ fnRes = <<>>

\* stripUnusedRoutes is called on the file
StripFile ==
  /\ fnName = ""
  /\ fnName' = "stripUnusedRoutes"
  /\ fnRes' = StripLines(fnArg, 1, FALSE)
  /\ UNCHANGED fnArg
  /\ UNCHANGED offFn

NextStrip == StripFile

InitStrip ==
  /\ JobInit /\ StreamIdle /\ RunIdle /\ FarmIdle /\ TokenInit /\ GateInit
  /\ RootIdle /\ UploadIdle /\ SeqIdle /\ PortIdle /\ StripInit

SpecStrip == InitStrip /\ [][NextStrip]_vars

\* ======================================================================
\* Project root: findProjectRoot, and the root processBuild settles on
\* ======================================================================
\* walk(dir, depth) returns at once when depth > 4
SearchDepth == 4

\* A directory is its path below rootDir, the sequence of its names; <<>> is
\* rootDir. The trees have a chain a/a/... and a chain b/a.
RECURSIVE Chain(_, _)
Chain(name, n) == IF n = 0 THEN <<>> ELSE <<name>> \o Chain("a", n - 1)

TreeShapes ==
  {{Chain("a", i) : i \in 1..n} \cup {Chain("b", i) : i \in 1..m} :
     n \in 0..MaxTreeDepth, m \in 0..2}

\* dirs: the directories below rootDir; manifests: the directories that hold
\* a package.json; extra: rootDir holds another regular file
Trees ==
  UNION {[dirs : {ds}, manifests : SUBSET (ds \cup {<<>>}), extra : BOOLEAN] :
           ds \in TreeShapes}

\* hits: the directories walk reads (depth 0 to 4) that hold a package.json
Hits(t) == {d \in t.manifests : Len(d) <= SearchDepth}

\* hits.sort by the number of path segments, then hits[0]: a hit with no
\* shorter one; readdir's order decides among hits of equal length
FirstHits(t) == {d \in Hits(t) : \A x \in Hits(t) : Len(d) <= Len(x)}

\* fs.readdir(workDir): the names at the top of the tree
TopEntries(t) ==
  {<<"dir", d[1]>> : d \in {x \in t.dirs : Len(x) = 1}}
    \cup (IF <<>> \in t.manifests THEN {<<"file", "package.json">>} ELSE {})
    \cup (IF t.extra THEN {<<"file", "README.md">>} ELSE {})

\* processBuild lines 2486-2494: workDir, or its single entry when that is a
\* directory holding a package.json
ProjectRoot(t) ==
  IF Cardinality(TopEntries(t)) = 1
    THEN LET e == CHOOSE x \in TopEntries(t) : TRUE
         IN IF e[1] = "dir" /\ <<e[2]>> \in t.manifests THEN <<e[2]>> ELSE <<>>
    ELSE <<>>

RootInit ==
  /\ rootTree \in Trees
  /\ rootFound = NotRun
  /\ rootLocated = NotRun

\* findProjectRoot(rootDir) settles: a readdir rejects, or null, or hits[0]
RootFind(d, ok) ==
  /\ rootFound = NotRun
  /\ rootFound' =
       IF ~ok THEN [kind |-> "error", dir |-> <<>>]
       ELSE IF Hits(rootTree) = {} THEN [kind |-> "null", dir |-> <<>>]
       ELSE [kind |-> "dir", dir |-> d]
  /\ (ok /\ Hits(rootTree) # {}) => d \in FirstHits(rootTree)
  /\ (~ok \/ Hits(rootTree) = {}) => d = <<>>
  /\ UNCHANGED <<rootTree, rootLocated>>
  /\ UNCHANGED offRoot

\* processBuild lines 2486-2498 are through: projectRoot, or the throw of
\* 'No package.json found', or a rejected readdir / stat
RootLocate(ok) ==
  /\ rootLocated = NotRun
  /\ rootLocated' =
       IF ~ok THEN [kind |-> "error", dir |-> <<>>]
       ELSE IF ProjectRoot(rootTree) \in rootTree.manifests
         THEN [kind |-> "dir", dir |-> ProjectRoot(rootTree)]
       ELSE [kind |-> "null", dir |-> <<>>]
  /\ UNCHANGED <<rootTree, rootFound>>
  /\ UNCHANGED offRoot

NextRoot ==
  \/ \E d \in rootTree.dirs \cup {<<>>}, ok \in BOOLEAN : RootFind(d, ok)
  \/ \E ok \in BOOLEAN : RootLocate(ok)

InitRoot ==
  /\ JobInit /\ StreamIdle /\ RunIdle /\ FarmIdle /\ TokenInit /\ GateInit /\ SeqIdle /\ UploadIdle
  /\ PortIdle /\ FnIdle
  /\ RootInit

SpecRoot == InitRoot /\ [][NextRoot]_vars

\* ======================================================================
\* Properties of the job pipeline (checked under Spec)
\* ======================================================================
IsPrefix(s, t) == Len(s) <= Len(t) /\ \A i \in 1..Len(s) : s[i] = t[i]

StatusLog(j) == [i \in 1..Len(stageLog[j]) |-> stageLog[j][i].status]

\* the log without a closing "failed"
BeforeFailed(log) ==
  IF log # <<>> /\ log[Len(log)] = "failed" THEN SubSeq(log, 1, Len(log) - 1) ELSE log

\* the work that belongs to a stage and may be alive while the stage is shown
WorkOf(status) ==
  CASE status = "installing-dependencies" -> {"install"}
    [] status = "building" -> {"build"}
    [] status = "prerendering" -> {"render"}
    [] OTHER -> {}

\* C1: the stage values written for a job are, in order, a prefix of
\* processing, extracting, stripping-unused-routes, injecting-route-guard,
\* installing-dependencies, building, prerendering, packaging, completed
\* (possibly closed by failed): nothing skipped, nothing re-entered; and while
\* a job shows a stage of this list no work of an earlier stage is still alive.
C1_StageOrder ==
  \A j \in JobIds :
    /\ IsPrefix(BeforeFailed(StatusLog(j)), <<"processing">> \o Stages)
    /\ (j \in DOMAIN jobs /\ jobs[j].status # "failed")
         => running[j] \subseteq WorkOf(jobs[j].status)

C1_Witness ==
  \E j \in JobIds : StatusLog(j) = <<"processing">> \o Stages

\* C2: a terminal job has exactly one of downloadUrl and error: completed has
\* a downloadUrl and no error, failed has an error and no downloadUrl.
C2_ExactlyOneResult ==
  \A j \in DOMAIN jobs :
    /\ jobs[j].status = "completed"
         => IsSet(jobs[j], "downloadUrl") /\ ~IsSet(jobs[j], "error")
    /\ jobs[j].status = "failed"
         => IsSet(jobs[j], "error") /\ ~IsSet(jobs[j], "downloadUrl")

\* C3: once a job's stage is completed or failed, no step changes it.
C3_TerminalAbsorbing ==
  [][\A j \in (DOMAIN jobs) \cap (DOMAIN jobs') :
       jobs[j].status \in Terminal => jobs'[j].status = jobs[j].status]_vars

\* C4: every progress value written for a job is within 0..100, and each
\* write made while the job is non-terminal leaves progress at least as high
\* as the write before it.
C4_ProgressMonotone ==
  \A j \in JobIds :
    \A i \in 1..Len(stageLog[j]) :
      /\ stageLog[j][i].progress \in 0..100
      /\ (i > 1 /\ stageLog[j][i - 1].status \notin Terminal)
           => stageLog[j][i].progress >= stageLog[j][i - 1].progress

C4_Witness ==
  \E j \in JobIds :
    /\ Len(stageLog[j]) = 9
    /\ stageLog[j][9].progress = 100
    /\ stageLog[j][6].progress = 40

\* C5: when the work of a non-terminal stage throws, the job's record shows
\* failed with the message of that error, and from then on no further stage
\* work (install, build, render, packaging) is started for the job.
C5_FailureStops ==
  [][\A j \in JobIds :
       thrown'[j] # NoError =>
         /\ j \in DOMAIN jobs' =>
              /\ jobs'[j].status = "failed"
              /\ IsSet(jobs'[j], "error")
              /\ jobs'[j].error = thrown'[j]
         /\ thrown[j] # NoError =>
              /\ started'[j] = started[j]
              /\ running'[j] \subseteq running[j]
              /\ thrown'[j] = thrown[j]]_vars

C5_Witness ==
  \E j \in DOMAIN jobs :
    /\ jobs[j].status = "failed"
    /\ jobs[j].error = "Command timed out after 600000ms"
    /\ StatusLog(j)[Len(stageLog[j]) - 1] = "building"
    /\ pc[j] = "end"

\* C6: at the update that makes a job completed, the artifact
\* /tmp/outputs/<jobId>.zip exists and the recorded downloadUrl carries a
\* token for that jobId which verifyDownloadToken accepts at that moment; and
\* every completed record carries a downloadUrl for its own jobId.
BecomesCompleted(j) ==
  /\ j \in DOMAIN jobs'
  /\ jobs'[j].status = "completed"
  /\ (j \notin DOMAIN jobs \/ jobs[j].status # "completed")

C6_CompletedHasArtifact ==
  [][\A j \in DOMAIN jobs' :
       jobs'[j].status = "completed" =>
         /\ IsSet(jobs'[j], "downloadUrl")
         /\ jobs'[j].downloadUrl.jobId = j
         /\ jobs'[j].downloadUrl.t[1] = j
         /\ BecomesCompleted(j) =>
              /\ artifact'[j]
              /\ verifyDownloadToken(jobs'[j].downloadUrl.t, now') = j]_vars

C6_Witness ==
  \E j \in DOMAIN jobs :
    /\ jobs[j].status = "completed"
    /\ artifact[j]
    /\ verifyDownloadToken(jobs[j].downloadUrl.t, now) = j

\* C7: when the handler and pipeline of a job that got a staging directory
\* (it still exists, or a removal was called) have ended, fs.remove(workDir)
\* has been called exactly once for it: not zero times, not twice.
C7_CleanupExactlyOnce ==
  \A j \in JobIds :
    (pc[j] = "end" /\ (workDir[j] \/ removeCalls[j] > 0)) => removeCalls[j] = 1

\* C8: once a job is failed and its handler and pipeline have ended, its
\* staging directory does not exist.
C8_FailedLeavesNoStaging ==
  \A j \in DOMAIN jobs :
    (jobs[j].status = "failed" /\ pc[j] = "end") => ~workDir[j]

\* C10: for a job whose archive exceeds the file-count or the size ceiling,
\* no external process (npm install, npm run build) is ever spawned.
C10_OversizeNeverSpawns ==
  \A j \in JobIds : oversize[j] => started[j] \cap {"install", "build"} = {}

\* ======================================================================
\* Properties of the Archive Guard (checked under SpecStream)
\* ======================================================================
HasEscapingEntry(a) == \E i \in 1..Len(a) : ZipSlip(a[i].name)

HasEscapingDataEntry(a) ==
  \E i \in 1..Len(a) : ZipSlip(a[i].name) /\ ~IsMetadata(a[i].name)

\* extraction has resolved: the handler went on to the project root or beyond
PastExtraction ==
  spc \in {"findRoot", "install", "build", "respond"} \/ spawned # {} \/ reply = "zip"

NothingOutsideDest == \A w \in written : Inside(w.loc)

\* C9 as stated: an archive with an entry whose normalized path begins with
\* ../ or is absolute never gets through extraction, and nothing is ever
\* created outside the destination directory.
C9_AnyEscapingEntryFails ==
  /\ HasEscapingEntry(archive) => ~PastExtraction
  /\ NothingOutsideDest

\* C9 amended: an archive with such an entry that is not a skipped
\* housekeeping entry (__MACOSX/..., ....DS_Store) never gets through
\* extraction and the only error the request reports is the zip-slip error;
\* for every archive nothing is created outside the destination directory.
C9_EscapingDataEntryFails ==
  /\ HasEscapingDataEntry(archive) =>
       /\ ~PastExtraction
       /\ reply \in {"", ZipSlipMessage, "Missing zip file field 'zip'"}
  /\ NothingOutsideDest

C9_Witness ==
  /\ Len(archive) = 3
  /\ ZipSlip(archive[3].name) /\ ~IsMetadata(archive[3].name)
  /\ ~HasEscapingEntry(SubSeq(archive, 1, 2))
  /\ spc = "done"
  /\ reply = ZipSlipMessage
  /\ written = {}

\* the streaming handler: an archive over a ceiling never gets a process
Stream_CeilingBeforeSpawn ==
  CeilingMessage(scanZip(archive)) # NoError => spawned = {}

\* the streaming handler: fsp.rm(jobDir) is called exactly once by the time
\* the handler is done with a job directory
Stream_CleanupOnce ==
  /\ rmCalls <= 1
  /\ (spc = "done" /\ reply # "Missing zip file field 'zip'") => rmCalls = 1
\* ======================================================================
\* Properties of the Process Supervisor (checked under SpecRun)
\* ======================================================================
\* C11: once a run has reported TimedOut and the signal it sent has been
\* delivered, no process started by the run (the child or a descendant) is
\* still running.
C11_NoOrphanAfterTimeout ==
  (promise.kind = "TimedOut" /\ ~signal.pending) => procs = {}

Rendering == {k \in 1..Len(farmRoutes) : rstate[k] \in InProgress}

\* C13: at every instant at most PRERENDER_CONCURRENCY routes have a page
\* open (being opened, navigated, given its fallback, or closed).
C13_AtMostCConcurrent == Cardinality(Rendering) <= PRERENDER_CONCURRENCY

C13_Witness ==
  /\ Len(farmRoutes) > PRERENDER_CONCURRENCY
  /\ Cardinality({k \in 1..Len(farmRoutes) : rstate[k] = "rendering"}) = PRERENDER_CONCURRENCY
  /\ batchAt = 0

OutputLocations == {routeToOutfile(farmRoutes[k]) : k \in 1..Len(farmRoutes)}

\* C14: when prerenderDistToFiles has returned, every requested route has a
\* document at its output location and the N distinct routes have N output
\* documents.
C14_ExactlyNDocuments ==
  farmPc = "returned" =>
    /\ \A loc \in OutputLocations : \E d \in docs : d.loc = loc
    /\ Cardinality(OutputLocations) = Len(farmRoutes)

\* the route list cut, in order, into consecutive pieces of size c
RECURSIVE Partition(_, _)
Partition(list, c) ==
  IF list = <<>> THEN <<>>
  ELSE IF Len(list) <= c THEN <<list>>
  ELSE <<SubSeq(list, 1, c)>> \o Partition(SubSeq(list, c + 1, Len(list)), c)

BatchIndexOf(k) == (k - 1) \div PRERENDER_CONCURRENCY

\* C15: the batches started are, in order, the consecutive pieces of size
\* PRERENDER_CONCURRENCY of the route list (the last may be smaller), and no
\* route of a batch is started before every route of the batches before it
\* has finished.
C15_BatchesInOrder ==
  /\ IsPrefix(batchLog, Partition(farmRoutes, PRERENDER_CONCURRENCY))
  /\ \A a, b \in 1..Len(farmRoutes) :
       (BatchIndexOf(a) < BatchIndexOf(b) /\ rstate[b] # "waiting") => rstate[a] = "done"

C15_Witness ==
  /\ farmRoutes = <<Route(<<>>, FALSE), Route(<<"about">>, FALSE),
                    Route(<<"about", "team">>, FALSE)>>
  /\ batchLog = << <<Route(<<>>, FALSE), Route(<<"about">>, FALSE)>>,
                   <<Route(<<"about", "team">>, FALSE)>> >>
  /\ farmPc = "returned"
  /\ Len(farmResult.failed) = 1
\* ======================================================================
\* Properties of the Download Authorizer (checked under SpecToken)
\* ======================================================================
\* C16: a token signed for jobId with ttl T at t0 is accepted (the jobId is
\* returned) when verified at t0, and rejected when verified at any time at
\* which T or more seconds have passed since t0.
C16_RejectedFromTtlOn ==
  \A i \in tkIssued :
    (tkChecked.called /\ tkChecked.token = i.token /\ tkChecked.at >= i.t0) =>
      /\ tkChecked.at = i.t0 => tkChecked.result = i.jobId
      /\ tkChecked.at - i.t0 >= i.ttl => tkChecked.result = 0

\* the conditions under which a token is to be accepted at time t
ValidToken(token, t) ==
  /\ Len(token) = 3
  /\ token[1] # 0
  /\ ~IsNaN(token[2])
  /\ Number(token[2]) # 0
  /\ t <= Number(token[2])
  /\ token[3] = Hmac(API_KEY, <<token[1], Number(token[2])>>)

\* C17: verifyDownloadToken returns a jobId only for a token of exactly three
\* parts whose expiry is a number that has not passed and whose signature is
\* the keyed hash of jobId and expiry under API_KEY, and then it returns the
\* jobId of the token; for every other input it returns null, and it never
\* throws.
C17_AcceptsOnlyValid ==
  tkChecked.called =>
    /\ tkChecked.result # Thrown
    /\ tkChecked.result # 0 <=> ValidToken(tkChecked.token, tkChecked.at)
    /\ tkChecked.result # 0 => tkChecked.result = tkChecked.token[1]

C17_Witness ==
  /\ tkChecked.called
  /\ tkChecked.result = 2
  /\ tkChecked.token \in {i.token : i \in tkIssued}
  /\ tkChecked.at > 0

C17_WitnessRejected ==
  /\ tkChecked.called
  /\ Len(tkChecked.token) = 3
  /\ tkChecked.token[3] = SigText(3, 64, 65)
  /\ tkChecked.token[1] # 0
  /\ tkChecked.token[2] = Str(MaxClock)
  /\ tkChecked.result = 0
\* ======================================================================
\* Properties of the download endpoint (checked under SpecDownload)
\* ======================================================================
\* the request on record is one the gate is to let pass
Authorized(g) ==
  \/ g.bearer = API_KEY
  \/ /\ g.t # NoToken
     /\ verifyDownloadToken(g.t, g.at) # 0
     /\ g.t[1] = g.job

\* C18: a download request for job J passes authenticateDownload exactly when
\* it carries API_KEY as bearer or a token that verifies and names J; a
\* request that is turned away leaves every artifact, every job entry and
\* every other request as they were.
C18_AuthorizedIff ==
  [][gate'.seen =>
       /\ gate'.passed <=> Authorized(gate')
       /\ (gate' # gate /\ ~gate'.passed) => UNCHANGED <<jobs, artifact, dl>>]_vars

C18_Witness ==
  /\ gate.seen
  /\ ~gate.passed
  /\ gate.job = 2
  /\ gate.t = signDownloadToken(1, DefaultTtlSeconds, 0)
  /\ verifyDownloadToken(gate.t, gate.at) = 1
  /\ artifact[2]
  /\ 2 \in DOMAIN jobs

\* C19: the artifact of a job is sent in full to at most one request, and
\* once a request has got it and fs.remove has been awaited, the artifact is
\* gone.
C19_SingleRedemption ==
  /\ \A r1, r2 \in DOMAIN dl :
       (r1 # r2 /\ dl[r1].job # 0 /\ dl[r1].job = dl[r2].job)
         => ~(dl[r1].pc \in {"removing", "deleting"} /\ dl[r2].pc \in {"removing", "deleting"})
  /\ \A r \in DOMAIN dl : dl[r].pc = "deleting" => ~artifact[dl[r].job]
\* ======================================================================
\* Properties of the project root (checked under SpecRoot)
\* ======================================================================
\* the manifests within the search depth
WithinDepth(t) == {d \in t.manifests : Len(d) <= SearchDepth}

\* what a search of the tree is to answer: a directory within the search
\* depth that holds a manifest and has no shallower rival, or not-found when
\* there is none
Shallowest(t, res) ==
  IF WithinDepth(t) = {}
    THEN res.kind = "null"
    ELSE /\ res.kind = "dir"
         /\ res.dir \in WithinDepth(t)
         /\ \A x \in WithinDepth(t) : Len(res.dir) <= Len(x)

\* C20: the project root that comes back is a directory within the search
\* depth that directly holds a package.json and has the fewest path segments
\* of all such directories, and not-found comes back when there is none; this
\* holds of findProjectRoot and of the root processBuild goes on with.
C20_ShallowestManifest ==
  /\ rootFound.kind \in {"null", "dir"} => Shallowest(rootTree, rootFound)
  /\ rootLocated.kind \in {"null", "dir"} => Shallowest(rootTree, rootLocated)

\* findProjectRoot alone answers as C20 says
Root_FindProjectRootShallowest ==
  rootFound.kind \in {"null", "dir"} => Shallowest(rootTree, rootFound)

Root_Witness ==
  /\ rootTree.manifests = {<<"a", "a">>}
  /\ rootFound = [kind |-> "dir", dir |-> <<"a", "a">>]
  /\ rootLocated.kind = "null"

\* ======================================================================
\* Properties of admission and polling (checked under Spec)
\* ======================================================================
\* C21: at the step that answers a build request (202 with the job id) the
\* job is in the Job Store, nothing has been extracted and no stage has run;
\* and an entry leaves the Job Store only in the cleanup of a download that
\* was sent, so a poll between the answer and the redemption finds the job.
C21_RecordedBeforeAnswer ==
  [][\A j \in JobIds :
       /\ (pc[j] = "idle" /\ pc'[j] # "idle") =>
            /\ j \in DOMAIN jobs'
            /\ jobs'[j].id = j
            /\ ~workDir'[j]
            /\ started'[j] = {}
            /\ \A i \in 1..Len(stageLog'[j]) :
                 stageLog'[j][i].status \in {"processing", "failed"}
       /\ (pc[j] # "idle" /\ j \in DOMAIN jobs /\ j \notin DOMAIN jobs') =>
            \E r \in DOMAIN dl : dl[r].pc = "deleting" /\ dl[r].job = j
       /\ j \in DOMAIN jobs => pc[j] # "idle"]_vars

C21_Witness ==
  \E j \in JobIds :
    /\ pc[j] = "ensureWorkDir"
    /\ j \in DOMAIN jobs
    /\ jobs[j].status = "processing"
    /\ ~workDir[j]

TransformStages == {"stripping-unused-routes", "injecting-route-guard"}

\* C22: no job is marked failed out of a source-transform stage: whatever
\* stripUnusedRoutes and injectRouteGuard do, the stage written after them is
\* installing-dependencies, never failed.
C22_TransformNonFatal ==
  \A j \in JobIds :
    \A i \in 1..(Len(stageLog[j]) - 1) :
      stageLog[j][i].status \in TransformStages => stageLog[j][i + 1].status # "failed"

\* ======================================================================
\* Properties of render failures and teardown
\* ======================================================================
\* the routes whose render failed: the page could not be created, or
\* prerenderSingleRoute threw
FailedRoutes ==
  {k \in 1..Len(farmRoutes) :
     rstate[k] = "rejected" \/ \E i \in 1..Len(farmResult.failed) : farmResult.failed[i] = farmRoutes[k]}

\* C23: a route whose render fails does not abort the run: with any set of
\* failed routes prerenderDistToFiles still goes on to return its result, and
\* every failed route is in the list of failed routes of that result.
C23_RouteFailuresNeverAbort ==
  \A k \in FailedRoutes :
    /\ farmPc \notin {"aborting", "threw"}
    /\ \E i \in 1..Len(farmResult.failed) : farmResult.failed[i] = farmRoutes[k]

\* ======================================================================
\* Properties of concurrent streaming requests (checked under SpecUpload)
\* ======================================================================
\* C25: any two requests in flight have distinct upload files, distinct job
\* ids and distinct staging directories, and no request finds its upload file
\* taken by another.
C25_JobsShareNothing ==
  \A r1, r2 \in UploadReqs :
    r1 # r2 =>
      /\ (reqs[r1].file # 0 /\ reqs[r2].file # 0) => reqs[r1].file # reqs[r2].file
      /\ (reqs[r1].jobId # 0 /\ reqs[r2].jobId # 0) => reqs[r1].jobId # reqs[r2].jobId
      /\ (reqs[r1].jobDir # 0 /\ reqs[r2].jobDir # 0) => reqs[r1].jobDir # reqs[r2].jobDir
      /\ reqs[r1].pc # "renameRejected"

\* the staging directories alone are distinct
Upload_JobDirsDistinct ==
  \A r1, r2 \in UploadReqs :
    (r1 # r2 /\ reqs[r1].jobDir # 0 /\ reqs[r2].jobDir # 0) => reqs[r1].jobDir # reqs[r2].jobDir

\* ======================================================================
\* Properties of the build boundary (checked under SpecBoundary)
\* ======================================================================
\* C24: a build request passes the boundary exactly when its header is
\* `Bearer <API_KEY>`; a request that does not pass creates no job record,
\* uses up no job id, extracts nothing and starts nothing; and every job
\* record was made by a request that passed.
C24_UnauthorizedNeverAdmitted ==
  [][/\ gate'.seen =>
          (gate'.passed <=> (gate'.bearer = "Bearer" /\ gate'.t = <<API_KEY>>))
     /\ (gate' # gate /\ ~gate'.passed) =>
          UNCHANGED <<jobs, nextId, pc, workDir, artifact, running, started, stageLog>>
     /\ DOMAIN jobs' # DOMAIN jobs => (gate'.passed /\ gate'.job \in DOMAIN jobs')]_vars

C24_Witness ==
  /\ gate.seen
  /\ ~gate.passed
  /\ gate.bearer = "Bearer"
  /\ gate.job = 1
  /\ jobs = <<>>
  /\ nextId = 1
  /\ \A j \in JobIds : pc[j] = "idle" /\ ~workDir[j]

\* C26: when a run of the renderer has returned or thrown, the browser it
\* launched has been closed and the static server it started has been
\* stopped.
C26_TeardownUnconditional ==
  seqPc \in {"returned", "threw"} => (seqBrowser # "open" /\ seqServer # "up")

\* C27: every route whose render failed is recorded as failed and has a
\* fallback copy of the root index document at its output location once the
\* loop has gone past it.
C27_FailureRecordedWithFallback ==
  \A k \in SeqRoutes :
    (/\ \E e \in RouteErrors : [route |-> k, error |-> e] \in seqResult.failed
     /\ (k < seqAt \/ seqPc \in {"finally", "returned"}))
      => seqOut[k] = "fallback"

C29_CloseStopsWork ==
  [][(variant = "v2" /\ closed) =>
       /\ spawned' = spawned
       /\ written' = written
       /\ (spc' # spc => spc' \in {"finalRm", "done"})]_vars

\* the stage whose work has begun when job j stands at the given await:
\* the archive is extracted before processBuild is entered; the project
\* root is located under extracting; the build output is located under
\* building
StageAt(at) ==
  CASE at \in {"pbEnsureDir", "locateRoot"} -> ExtractingUpdate
    [] at = "installing" -> InstallingUpdate
    [] at \in {"building", "findDist"} -> BuildingUpdate
    [] at = "prerendering" -> PrerenderingUpdate
    [] at = "packaging" -> PackagingUpdate

WorkingAt == {"pbEnsureDir", "locateRoot", "installing", "building", "findDist",
              "prerendering", "packaging"}

\* C30: whenever the work of a stage has begun for a job, the Job Store
\* shows that stage and its progress for the job.
C30_StageShownBeforeWork ==
  \A j \in DOMAIN jobs :
    pc[j] \in WorkingAt =>
      /\ jobs[j].status = StageAt(pc[j]).status
      /\ jobs[j].progress = StageAt(pc[j]).progress

\* the same for every stage after the extraction
C30_ShownFromLocateRootOn ==
  \A j \in DOMAIN jobs :
    pc[j] \in WorkingAt \ {"pbEnsureDir"} =>
      /\ jobs[j].status = StageAt(pc[j]).status
      /\ jobs[j].progress = StageAt(pc[j]).progress

\* C31: every page opened for a route is closed when that route's render
\* has ended: a page is open only for the route the loop stands at.
C31_NoPageLeaked ==
  IsJobServer => \A k \in seqPages : seqPc = "route" /\ k = seqAt

\* C32: a route whose wait for the root element ran out is not failed:
\* once its render has ended its markup is at its output location.
C32_LateRouteRendered ==
  \A k \in seqLate :
    (k < seqAt \/ seqPc \notin {"route"}) => seqOut[k] = "rendered"

\* C33: the port of one render never makes the static server of another
\* render fail to start, and no two servers listen on one port.
C33_PortsNeverCollide ==
  /\ \A r \in Renders : srv[r].state # "failed"
  /\ \A r, q \in Renders :
       (r # q /\ srv[r].state = "up" /\ srv[q].state = "up") => srv[r].port # srv[q].port

\* the same where the port is the system's choice (listen(0))
C33_EphemeralNeverCollides ==
  portPolicy = "ephemeral" => \A r \in Renders : srv[r].state # "failed"

\* the path segments of a route
Depth(s) ==
  Cardinality({i \in DOMAIN s : s[i] # "/" /\ (i = 1 \/ s[i - 1] = "/")})

\* C34: the routes are handed to the render loop shallowest first: no route
\* stands before a route with fewer path segments.
C34_ShallowestFirst ==
  \A i, k \in DOMAIN fnRes : i < k => Depth(fnRes[i]) <= Depth(fnRes[k])

\* the list of parseRoutesFromRequest is in the order of its slash counts
C34_SortedBySlashCount ==
  fnName = "parseRoutesFromRequest" =>
    \A i, k \in DOMAIN fnRes : i < k => SlashCount(fnRes[i]) <= SlashCount(fnRes[k])

\* C35: a non-empty list returned by parseRoutesFromRequest starts with "/".
C35_RootFirst ==
  (fnName = "parseRoutesFromRequest" /\ fnRes # <<>>) => fnRes[1] = <<"/">>

\* C36: the guard allows a pathname exactly when its normal form is the
\* normal form of some selected route.
C36_OnlySelectedAllowed ==
  fnName = "isRouteAllowed" =>
    (fnRes <=> \E i \in DOMAIN fnArg.allowed :
                 normalizeRoute(fnArg.pathname) = normalizeRoute(fnArg.allowed[i]))

\* every pathname that matches a selected route is allowed
C36_SelectedAllowed ==
  fnName = "isRouteAllowed" =>
    ((\E i \in DOMAIN fnArg.allowed :
        normalizeRoute(fnArg.pathname) = normalizeRoute(fnArg.allowed[i])) => fnRes)

\* the lines of the file that came through
KeptLines == {fnRes[k] : k \in DOMAIN fnRes}

\* C37: stripUnusedRoutes drops every line of every Route element whose
\* path is not kept, and keeps every other line.
C37_StripsWholeElements ==
  fnName = "stripUnusedRoutes" =>
    KeptLines = {i \in DOMAIN fnArg : ~fnArg[i].removed}

\* the first line of a Route element whose path is not kept is always dropped
C37_DroppedRouteLineGone ==
  fnName = "stripUnusedRoutes" =>
    \A i \in KeptLines : fnArg[i].path # "dropped"

\* C38: every fallback document is a copy of the root index document as the
\* build step produced it.
C38_FallbackIsBuiltIndex ==
  \A d \in docs : d.kind = "fallback" => d.from = "built"

====
